---------------------------- MODULE Spec2Model ----------------------------
(***************************************************************************)
(* Model of the character-consistent story illustration pipeline of        *)
(* AIVocabulary (GoogleProductionStorybook, generateCharacterImageWithDALLE)*)
(* and of its two story caches with the story read path.                   *)
(*                                                                         *)
(* Text is a sequence of tokens: a word, a run of blanks (SP) or a         *)
(* paragraph break "\n\n" (SEP).  Strings that are hashed are sequences of  *)
(* character codes.  Scores are in hundredths (0.95 is 95).                 *)
(***************************************************************************)
EXTENDS Integers, Sequences, FiniteSets, TLC

\* ------------------------------------------------------------------ bounds
MaxContentLen == 3
MaxPages      == 3
\* length of the texts the pure functions are applied to
MaxTextLen    == 5

\* ------------------------------------------------------------------ values
\* null and undefined
Null == [null |-> TRUE]
SEP  == "\n\n"
SP   == " "
Words  == {"reading", "hello"}
Tokens == Words \cup {SEP, SP}
Blank  == {SEP, SP}

RECURSIVE SeqsUpTo(_, _)
SeqsUpTo(S, n) ==
  IF n = 0 THEN {<<>>}
  ELSE LET shorter == SeqsUpTo(S, n - 1)
       IN  shorter \cup {Append(s, x) : s \in {t \in shorter : Len(t) = n - 1}, x \in S}

Contents   == SeqsUpTo(Tokens, MaxContentLen)
PageCounts == 0..MaxPages
Texts      == SeqsUpTo(Tokens, MaxTextLen)
\* "ref.png" and "a.jpg" as character codes
Locators   == {<<114, 101, 102, 46, 112, 110, 103>>, <<97, 46, 106, 112, 103>>}
HealthOutcomes == {"healthy", "unhealthy", "throws"}

Min(a, b) == IF a < b THEN a ELSE b

\* ------------------------------------------------------- string helpers
\* String.prototype.trim() is non-empty
NonBlank(t) == \E i \in 1..Len(t) : t[i] \notin Blank

\* String.prototype.split('\n\n')
RECURSIVE SplitFrom(_, _, _)
SplitFrom(t, i, cur) ==
  IF i > Len(t) THEN <<cur>>
  ELSE IF t[i] = SEP THEN <<cur>> \o SplitFrom(t, i + 1, <<>>)
  ELSE SplitFrom(t, i + 1, Append(cur, t[i]))

Split(t) == SplitFrom(t, 1, <<>>)

\* Array.prototype.join('\n\n')
RECURSIVE Join(_)
Join(ps) ==
  IF Len(ps) = 0 THEN <<>>
  ELSE IF Len(ps) = 1 THEN ps[1]
  ELSE ps[1] \o <<SEP>> \o Join(Tail(ps))

\* Array.prototype.filter
RECURSIVE FilterNonBlank(_)
FilterNonBlank(ps) ==
  IF Len(ps) = 0 THEN <<>>
  ELSE IF NonBlank(ps[1]) THEN <<ps[1]>> \o FilterNonBlank(Tail(ps))
  ELSE FilterNonBlank(Tail(ps))

\* Array.prototype.slice(startIdx, endIdx), 0-based, end exclusive
Slice(ps, startIdx, endIdx) ==
  IF startIdx >= endIdx THEN <<>> ELSE SubSeq(ps, startIdx + 1, endIdx)

\* Math.ceil(a / b) for a >= 0, b >= 1
CeilDiv(a, b) == (a + b - 1) \div b

\* ------------------------------------------------------------ hashString
\* A 32-bit value is kept as its two 16-bit halves [hi, lo] (the integers of
\* the checker are themselves 32 bits wide).
TwoPow15 == 32768
TwoPow16 == 65536

\* hash = ((hash << 5) - hash) + char; hash = hash & hash
\* i.e. 31 * hash + char wrapped to 32 bits
HashStep(hash, char) ==
  LET lo == hash.lo * 31 + char
      hi == hash.hi * 31 + (lo \div TwoPow16)
  IN  [hi |-> hi % TwoPow16, lo |-> lo % TwoPow16]

\* for (let i = 0; i < str.length; i++): the steps over str[first..last] in
\* order, evaluated by halves to keep the evaluation shallow
RECURSIVE HashRange(_, _, _, _)
HashRange(str, first, last, hash) ==
  IF first > last THEN hash
  ELSE IF first = last THEN HashStep(hash, str[first])
  ELSE LET mid  == (first + last) \div 2
           left == HashRange(str, first, mid, hash)
       IN  \* the test makes the evaluation of the first half come first
           IF left.hi >= 0 THEN HashRange(str, mid + 1, last, left) ELSE left

\* Math.abs of the signed reading of the 32 bits
Abs32(hash) ==
  IF hash.hi < TwoPow15 THEN hash
  ELSE LET borrow == IF hash.lo = 0 THEN 0 ELSE 1
       IN  [hi |-> TwoPow16 - hash.hi - borrow, lo |-> (TwoPow16 - hash.lo) % TwoPow16]

HexDigit(d) ==
  CASE d = 0 -> "0" [] d = 1 -> "1" [] d = 2 -> "2" [] d = 3 -> "3"
    [] d = 4 -> "4" [] d = 5 -> "5" [] d = 6 -> "6" [] d = 7 -> "7"
    [] d = 8 -> "8" [] d = 9 -> "9" [] d = 10 -> "a" [] d = 11 -> "b"
    [] d = 12 -> "c" [] d = 13 -> "d" [] d = 14 -> "e" [] d = 15 -> "f"

RECURSIVE ToHex(_)
ToHex(n) ==
  IF n < 16 THEN <<HexDigit(n)>> ELSE Append(ToHex(n \div 16), HexDigit(n % 16))

\* Number.prototype.toString(16) of a non-negative 32-bit value
ToString16(v) ==
  IF v.hi = 0 THEN ToHex(v.lo)
  ELSE ToHex(v.hi) \o << HexDigit(v.lo \div 4096), HexDigit((v.lo \div 256) % 16),
                         HexDigit((v.lo \div 16) % 16), HexDigit(v.lo % 16) >>

hashString(str) == ToString16(Abs32(HashRange(str, 1, Len(str), [hi |-> 0, lo |-> 0])))


\* -------------------------------------------------------- string contents
\* String.prototype.charCodeAt: the code of a character, found by its place
\* among the letters and digits, the other characters one by one
CharCode(c) ==
  LET Place(alphabet) ==
        LET places == {i \in 1..Len(alphabet) : SubSeq(alphabet, i, i) = c}
        IN  IF places = {} THEN 0 ELSE CHOOSE i \in places : TRUE
      lower == Place("abcdefghijklmnopqrstuvwxyz")
      upper == Place("ABCDEFGHIJKLMNOPQRSTUVWXYZ")
      digit == Place("0123456789")
  IN  IF lower # 0 THEN 96 + lower
      ELSE IF upper # 0 THEN 64 + upper
      ELSE IF digit # 0 THEN 47 + digit
      ELSE CASE c = " " -> 32 [] c = "\n" -> 10 [] c = "." -> 46 [] c = "," -> 44
             [] c = "-" -> 45 [] c = "#" -> 35 [] c = "_" -> 95 [] c = ":" -> 58
             [] c = "*" -> 42 [] c = "(" -> 40 [] c = ")" -> 41 [] c = "/" -> 47

\* the character codes of a string
Chars(s) == [i \in 1..Len(s) |-> CharCode(SubSeq(s, i, i))]

\* the characters of a template string given as its pieces
RECURSIVE Flatten(_)
Flatten(parts) ==
  IF Len(parts) = 0 THEN <<>> ELSE Chars(parts[1]) \o Flatten(Tail(parts))

\* String.prototype.includes on character sequences
IsSubstring(needle, hay) ==
  \E i \in 0..(Len(hay) - Len(needle)) :
     \A j \in 1..Len(needle) : hay[i + j] = needle[j]

\* string.toLowerCase().includes(keyword): every piece of the strings searched
\* is lower case but for the capitals of "High-quality", "Professional" and
\* "Maya", which no keyword contains
Includes(parts, keyword) == IsSubstring(Chars(keyword), Flatten(parts))

\* String.prototype.toLowerCase
ToLowerCase(chars) ==
  [i \in 1..Len(chars) |-> IF chars[i] \in 65..90 THEN chars[i] + 32 ELSE chars[i]]


\* ------------------------------------------------ scene extraction rules
actionPatterns ==
  << [keywords |-> {"reading", "studied", "examining", "analyzed", "reviewed"},
      label |-> "reading and studying"],
     [keywords |-> {"writing", "documented", "noted", "recorded", "wrote"},
      label |-> "writing and documenting"],
     [keywords |-> {"walked", "walking", "explored", "wandered", "moved"},
      label |-> "walking and exploring"],
     [keywords |-> {"discovered", "found", "uncovered", "revealed", "located"},
      label |-> "making a discovery"],
     [keywords |-> {"thinking", "pondering", "contemplated", "considered"},
      label |-> "thinking deeply"],
     [keywords |-> {"speaking", "talking", "explained", "discussed", "said"},
      label |-> "speaking and explaining"],
     [keywords |-> {"searching", "looking", "seeking", "investigating"},
      label |-> "searching and investigating"],
     [keywords |-> {"running", "rushed", "hurried", "sprinted"},
      label |-> "moving with urgency"] >>

scenePatterns ==
  << [keywords |-> {"library", "libraries", "books", "manuscript", "shelves"},
      label |-> "ancient library with towering bookshelves and scrolls"],
     [keywords |-> {"laboratory", "lab", "research", "scientific", "equipment"},
      label |-> "modern research laboratory with advanced equipment"],
     [keywords |-> {"office", "workplace", "desk", "computer"},
      label |-> "professional office with modern technology"],
     [keywords |-> {"outdoor", "forest", "nature", "mountain", "landscape"},
      label |-> "beautiful natural outdoor environment"],
     [keywords |-> {"city", "urban", "street", "building", "downtown"},
      label |-> "vibrant urban cityscape"],
     [keywords |-> {"home", "house", "room", "indoor", "inside"},
      label |-> "comfortable indoor living space"] >>

tonePatterns ==
  << [keywords |-> {"mysterious", "enigmatic", "hidden", "secret", "unknown"},
      label |-> "mysterious and intriguing"],
     [keywords |-> {"exciting", "thrilling", "amazing", "wonderful", "discovery"},
      label |-> "exciting and dynamic"],
     [keywords |-> {"peaceful", "calm", "serene", "gentle", "quiet"},
      label |-> "peaceful and serene"],
     [keywords |-> {"dramatic", "intense", "important", "crucial", "significant"},
      label |-> "dramatic and intense"],
     [keywords |-> {"scholarly", "academic", "intellectual", "scientific"},
      label |-> "scholarly and intellectual"],
     [keywords |-> {"hopeful", "optimistic", "positive", "bright"},
      label |-> "hopeful and optimistic"] >>

\* The words a page text is made of: those of the stories paginated, and words
\* that match rules of different rank, one only once lowered ("Wrote") and one
\* inside a longer word ("researching").
PageWords ==
  Words \cup {"Wrote", "researching", "running", "library", "office", "secret",
              "scientific"}

AllKeywords ==
  UNION ({actionPatterns[i].keywords : i \in 1..Len(actionPatterns)}
         \cup {scenePatterns[i].keywords : i \in 1..Len(scenePatterns)}
         \cup {tonePatterns[i].keywords : i \in 1..Len(tonePatterns)})

\* the keywords found in each word by a case-insensitive search, computed
\* once; separators and punctuation contain no keyword, and no keyword
\* spans two words
WordKeywords ==
  [w \in PageWords |->
     {k \in AllKeywords : IsSubstring(Chars(k), ToLowerCase(Chars(w)))}]

\* /(?:k1|k2|...)/i.test(text)
RegexMatches(keywords, text) ==
  \E i \in 1..Len(text) :
     text[i] \in PageWords /\ WordKeywords[text[i]] \cap keywords # {}

\* the rules tried from the last to the first
RECURSIVE FirstMatchFromEnd(_, _, _, _)
FirstMatchFromEnd(patterns, i, text, default) ==
  IF i > Len(patterns) THEN default
  ELSE LET later == FirstMatchFromEnd(patterns, i + 1, text, default)
       IN  IF later # default THEN later
           ELSE IF RegexMatches(patterns[i].keywords, text) THEN patterns[i].label
           ELSE default

\* for (const {regex, label} of patterns) if (regex.test(text)) return label
RECURSIVE FirstMatch(_, _, _, _)
FirstMatch(patterns, i, text, default) ==
  IF i > Len(patterns) THEN default
  ELSE IF RegexMatches(patterns[i].keywords, text) THEN patterns[i].label
  ELSE FirstMatch(patterns, i + 1, text, default)

extractCharacterAction(text)  == FirstMatch(actionPatterns, 1, text, "standing thoughtfully")
extractSceneDescription(text) == FirstMatch(scenePatterns, 1, text, "thoughtfully composed indoor setting")
extractEmotionalTone(text)    == FirstMatch(tonePatterns, 1, text, "thoughtful and engaging")

\* ------------------------------------------------------------ pagination
\* pagination that keeps the pages left empty
intelligentStoryPaginationKeepsEmpty(content, targetPages) ==
  LET paragraphs == FilterNonBlank(Split(content))
      paragraphsPerPage == IF targetPages = 0 THEN 0
                           ELSE CeilDiv(Len(paragraphs), targetPages)
  IN  [i \in 1..targetPages |->
         Join(Slice(paragraphs, (i - 1) * paragraphsPerPage,
                    Min((i - 1) * paragraphsPerPage + paragraphsPerPage, Len(paragraphs))))]

\* pagination whose page size is the quotient rounded down
intelligentStoryPaginationFloor(content, targetPages) ==
  LET paragraphs == FilterNonBlank(Split(content))
      paragraphsPerPage == IF targetPages = 0 THEN 0
                           ELSE Len(paragraphs) \div targetPages
      PageContent(i) ==
        Join(Slice(paragraphs, i * paragraphsPerPage,
                   Min(i * paragraphsPerPage + paragraphsPerPage, Len(paragraphs))))
      RECURSIVE Loop(_, _)
      Loop(i, pages) ==
        IF i >= targetPages THEN pages
        ELSE Loop(i + 1, IF NonBlank(PageContent(i))
                         THEN Append(pages, PageContent(i)) ELSE pages)
  IN  Loop(0, <<>>)

intelligentStoryPagination(content, targetPages) ==
  LET paragraphs == FilterNonBlank(Split(content))
      \* targetPages = 0 never evaluates the division: the loop body does not run
      paragraphsPerPage == IF targetPages = 0 THEN 0
                           ELSE CeilDiv(Len(paragraphs), targetPages)
      PageContent(i) ==
        LET startIdx == i * paragraphsPerPage
            endIdx   == Min(startIdx + paragraphsPerPage, Len(paragraphs))
        IN  Join(Slice(paragraphs, startIdx, endIdx))
      RECURSIVE Loop(_, _)
      Loop(i, pages) ==
        IF i >= targetPages THEN pages
        ELSE Loop(i + 1, IF NonBlank(PageContent(i))
                         THEN Append(pages, PageContent(i)) ELSE pages)
  IN  Loop(0, <<>>)


\* ------------------------------------------------------ character profile
generateCharacterId(imageUrl) ==
  LET h == hashString(imageUrl) IN <<"maya_">> \o SubSeq(h, 1, Min(8, Len(h)))

extractFacialFeatures(imageUrl) ==
  [eyeColor |-> "brown", hairColor |-> "dark brown", skinTone |-> "medium",
   faceShape |-> "oval", age |-> "young adult", gender |-> "female"]

detectArtStyle(imageUrl) == "manga"

\* charCodeAt of a digit of the hexadecimal hash string
HexCharCode(c) ==
  CASE c = "0" -> 48 [] c = "1" -> 49 [] c = "2" -> 50 [] c = "3" -> 51
    [] c = "4" -> 52 [] c = "5" -> 53 [] c = "6" -> 54 [] c = "7" -> 55
    [] c = "8" -> 56 [] c = "9" -> 57 [] c = "a" -> 97 [] c = "b" -> 98
    [] c = "c" -> 99 [] c = "d" -> 100 [] c = "e" -> 101 [] c = "f" -> 102

EmbeddingDim == 512

\* Component i of the embedding is (code / 255) * 2 - 1; it is kept as its
\* numerator over 255, which is 2 * code - 255.
generateVisualEmbedding(imageUrl) ==
  LET hash == hashString(imageUrl) IN
  [i \in 1..EmbeddingDim |-> 2 * HexCharCode(hash[((i - 1) % Len(hash)) + 1]) - 255]

extractColorPalette(imageUrl) ==
  << "#8B4513", "#F4E4BC", "#2F1B14", "#6B8E23", "#D2B48C" >>

\* the traits, in hundredths
inferPersonalityTraits(facialFeatures, artStyle) ==
  [confidence |-> 80, friendliness |-> 90, intelligence |-> 95, energy |-> 70]

analyzeCharacterImageFallback(imageUrl) ==
  [characterId     |-> generateCharacterId(imageUrl),
   facialFeatures  |-> extractFacialFeatures(imageUrl),
   artStyle        |-> detectArtStyle(imageUrl),
   colorPalette    |-> extractColorPalette(imageUrl),
   visualEmbedding |-> generateVisualEmbedding(imageUrl),
   personality     |-> inferPersonalityTraits(extractFacialFeatures(imageUrl),
                                              detectArtStyle(imageUrl))]

\* -------------------------------------------------------- image generation
\* The outcome of a call: a returned value or a propagated exception, with the
\* tiers the call went through (its per-tier diagnostic log).
Return(v, tiers) == [threw |-> FALSE, value |-> v, tiers |-> tiers]
Throw(tiers)     == [threw |-> TRUE, value |-> Null, tiers |-> tiers]
Tier(name, outcome) == [tier |-> name, outcome |-> outcome]

buildCharacterDescription(profile) ==
  << "Maya, a ", profile.facialFeatures.age, " ", profile.facialFeatures.gender,
     " character with ", profile.facialFeatures.hairColor, " hair, ",
     profile.facialFeatures.eyeColor, " eyes, and ", profile.facialFeatures.skinTone,
     " skin tone in ", profile.artStyle, " style" >>

ActionLabels == {actionPatterns[i].label : i \in 1..Len(actionPatterns)}
                  \cup {"standing thoughtfully"}
SceneLabels  == {scenePatterns[i].label : i \in 1..Len(scenePatterns)}
                  \cup {"thoughtfully composed indoor setting"}
ToneLabels   == {tonePatterns[i].label : i \in 1..Len(tonePatterns)}
                  \cup {"thoughtful and engaging"}

\* the prompt template of generateCharacterConsistentImageFallback
FallbackPromptOf(profile, characterAction, sceneDescription, emotionalTone) ==
  << "High-quality ", profile.artStyle, " illustration of " >>
  \o buildCharacterDescription(profile)
  \o << " ", characterAction, " in ", sceneDescription, ". ", emotionalTone,
        " atmosphere. Professional digital art, consistent character design, detailed composition, vibrant colors." >>

FallbackPrompt(params) ==
  FallbackPromptOf(params.characterProfile, params.characterAction,
                   params.sceneDescription, params.emotionalTone)

\* every prompt the template produces for a page text (the profile's features
\* and art style are the same for every image locator)
AllPrompts ==
  {FallbackPromptOf(analyzeCharacterImageFallback(<<>>), extractCharacterAction(t),
                    extractSceneDescription(t), extractEmotionalTone(t)) :
     t \in Contents}

NoCategory == "none"

\* the category of the first branch of generateUniqueImageUrl the prompt
\* matches, NoCategory when it falls through to the default pose
CategoryOf(prompt) ==
  LET branches ==
        << [keywords |-> {"reading", "studying", "library"}, category |-> "reading"],
           [keywords |-> {"writing", "documenting"}, category |-> "writing"],
           [keywords |-> {"examining", "investigating"}, category |-> "examining"],
           [keywords |-> {"laboratory", "research"}, category |-> "research"],
           [keywords |-> {"speaking", "explaining"}, category |-> "speaking"],
           [keywords |-> {"moving", "walking"}, category |-> "moving"] >>
      Taken(promptLower) ==
        {b \in 1..6 : \E keyword \in branches[b].keywords :
                         IsSubstring(Chars(keyword), promptLower)}
      First(taken) ==
        IF taken = {} THEN NoCategory
        ELSE branches[CHOOSE b \in taken : \A c \in taken : b <= c].category
  IN  First(Taken(ToLowerCase(Flatten(prompt))))

\* CategoryOf and hashString of every prompt, computed once
PromptTable ==
  [prompt \in AllPrompts |->
     [category |-> CategoryOf(prompt), hash |-> hashString(Flatten(prompt))]]
  @@ << >>

MatchedCategory(prompt) == PromptTable[prompt].category

generateUniqueImageUrl(prompt, characterProfile, pageNumber) ==
  LET characterSeed == characterProfile.characterId
      visualStyle   == characterProfile.artStyle
      \* entry holds the hash (actionHash) and the matched category of the prompt
      Url(entry) ==
        [base     |-> "https://imagen.googleapis.com/v3/character/",
         seed     |-> characterSeed,
         category |-> IF entry.category # NoCategory THEN entry.category
                      ELSE "thoughtful",
         hash     |-> entry.hash,
         style    |-> visualStyle,
         page     |-> pageNumber]
  IN  Url(PromptTable[prompt])

generateCharacterConsistentImageFallback(params) ==
  LET prompt == FallbackPrompt(params)
      imageUrl == generateUniqueImageUrl(prompt, params.characterProfile, params.pageNumber)
      characterConsistencyScore == 95
  IN  [prompt |-> prompt, imageUrl |-> imageUrl,
       characterConsistencyScore |-> characterConsistencyScore]

\* the tiers generateCharacterConsistentImageFallback goes through: the keyword
\* match of the simulated tier, and the default asset when no category matches
FallbackTiers(params) ==
  IF MatchedCategory(FallbackPrompt(params)) # NoCategory
  THEN << Tier("simulated", "ok") >>
  ELSE << Tier("simulated", "failed"), Tier("fallback", "ok") >>

\* backendImageService.generateCharacterImage: every failure is caught and
\* becomes null
BackendOutcomes == {"noProfile", "fetchThrows", "notOk", "unsuccessful", "dalle", "simulation"}

backendGenerateCharacterImage(outcome) ==
  CASE outcome = "dalle" ->
         [imageUrl |-> [base |-> "http://localhost:3002/generated-images/dalle3"],
          prompt |-> <<"manga">>, consistencyScore |-> 95]
    [] outcome = "simulation" ->
         [imageUrl |-> [base |-> "https://imagen.googleapis.com/v3/character/"],
          prompt |-> <<"manga">>, consistencyScore |-> 85]
    [] OTHER -> Null

\* generateCharacterConsistentImage entering the simulation at once, without
\* attempting the backend
generateCharacterConsistentImageSimulatedFirst(backendCharacterProfile, outcome, params) ==
  Return(generateCharacterConsistentImageFallback(params), FallbackTiers(params))

\* generateCharacterConsistentImage raising when the backend gives no result
generateCharacterConsistentImageRethrow(backendCharacterProfile, outcome, params) ==
  LET fallback == Return(generateCharacterConsistentImageFallback(params),
                         FallbackTiers(params))
      backendResult == backendGenerateCharacterImage(outcome)
  IN  IF backendCharacterProfile = Null
      THEN [fallback EXCEPT !.tiers = << Tier("real", "unavailable") >> \o @]
      ELSE IF backendResult # Null
      THEN Return([prompt |-> backendResult.prompt,
                   imageUrl |-> backendResult.imageUrl,
                   characterConsistencyScore |-> backendResult.consistencyScore],
                  << Tier("real", "ok") >>)
      ELSE Throw(<< Tier("real", "failed") >>)

generateCharacterConsistentImage(backendCharacterProfile, outcome, params) ==
  LET Try(fallback) ==
        IF backendCharacterProfile # Null
        THEN LET backendResult == backendGenerateCharacterImage(outcome)
             IN  IF backendResult # Null
                 THEN Return([prompt |-> backendResult.prompt,
                              imageUrl |-> backendResult.imageUrl,
                              characterConsistencyScore |-> backendResult.consistencyScore],
                             << Tier("real", "ok") >>)
                 ELSE [fallback EXCEPT !.tiers = << Tier("real", "failed") >> \o @]
        ELSE [fallback EXCEPT !.tiers = << Tier("real", "unavailable") >> \o @]
      Catch(tried, fallback) ==
        IF tried.threw
        THEN [fallback EXCEPT !.tiers = << Tier("real", "failed") >> \o @]
        ELSE tried
      TryCatch(fallback) == Catch(Try(fallback), fallback)
  IN  TryCatch(Return(generateCharacterConsistentImageFallback(params),
                      FallbackTiers(params)))


\* ------------------------------------------- generateCharacterImageWithDALLE
DalleOutcomes == {"url", "noUrl", "throws"}
RequestActions == {"reading and studying", "searching and investigating", "standing thoughtfully"}
RequestScenes  == {"ancient library with towering bookshelves and scrolls",
                   "modern research laboratory with advanced equipment",
                   "thoughtfully composed indoor setting"}
Requests == [action : RequestActions, scene : RequestScenes]

createDetailedPromptForDALLE(request) ==
  << "manga", " style digital illustration of ", "Maya", " ", request.action,
     " in ", request.scene, ". ", "Thoughtful and engaging", " atmosphere. ",
     "High quality digital art, detailed character design, vibrant colors, professional composition, consistent character appearance throughout",
     ". The character should maintain the same facial features, hair style, and overall appearance as described." >>

getFallbackImageUrl(request) ==
  LET action == <<request.action>>
      scene  == <<request.scene>>
  IN  IF Includes(action, "reading") \/ Includes(action, "studying")
      THEN [base |-> "https://images.unsplash.com/photo-1481627834876-b7833e8f5570"]
      ELSE IF Includes(action, "writing") \/ Includes(action, "documenting")
      THEN [base |-> "https://images.unsplash.com/photo-1513475382585-d06e58bcb0e0"]
      ELSE IF Includes(action, "examining") \/ Includes(action, "investigating")
      THEN [base |-> "https://images.unsplash.com/photo-1522202176988-66273c2fd55f"]
      ELSE IF Includes(scene, "laboratory") \/ Includes(scene, "research")
      THEN [base |-> "https://images.unsplash.com/photo-1582719478250-c89cae4dc85b"]
      ELSE IF Includes(scene, "library") \/ Includes(scene, "books")
      THEN [base |-> "https://images.unsplash.com/photo-1507003211169-0a1dd7228f2d"]
      ELSE [base |-> "https://images.unsplash.com/photo-1494790108755-2616c471768c"]

\* generateCharacterImageWithDALLE without its catch block
generateCharacterImageWithDALLENoCatch(request, outcome) ==
  IF outcome = "url"
  THEN Return([imageUrl |-> [base |-> "https://oaidalleapiprodscus.blob.core.windows.net/"],
               prompt |-> createDetailedPromptForDALLE(request),
               characterConsistencyScore |-> 95],
              << Tier("real", "ok") >>)
  ELSE Throw(<< Tier("real", "failed") >>)

generateCharacterImageWithDALLE(request, outcome) ==
  LET detailedPrompt == createDetailedPromptForDALLE(request)
      Try ==
        IF outcome = "throws" THEN Throw(<< Tier("real", "failed") >>)
        ELSE IF outcome = "noUrl" THEN Throw(<< Tier("real", "failed") >>)
        ELSE Return([imageUrl |-> [base |-> "https://oaidalleapiprodscus.blob.core.windows.net/"],
                     prompt |-> detailedPrompt,
                     characterConsistencyScore |-> 95],
                    << Tier("real", "ok") >>)
  IN  IF Try.threw
      THEN Return([imageUrl |-> getFallbackImageUrl(request),
                   prompt |-> createDetailedPromptForDALLE(request),
                   characterConsistencyScore |-> 70],
                  Try.tiers \o << Tier("fallback", "ok") >>)
      ELSE Try

\* ------------------------------------------------------------ story caches
\* the 10 minutes of the cleanup timer, in clock ticks
TTL == 2
\* at most this many cleanup timers are pending at once
MaxTimers == 2

StoryIds == {"s1", "s2"}
Titles   == {"a", "b"}
\* CreateStoryResult, as far as the caches look at it
Stories  == [storyId : StoryIds, title : Titles]
\* params.id of a GET request
RequestIds == StoryIds \cup {"", "demo"}
\* the body of a POST request: a story, a story without storyId, or no JSON
MalformedJson == [malformed |-> TRUE]
PostBodies == Stories \cup {[storyId |-> "", title |-> "a"], MalformedJson}

\* Map.prototype.set, delete, get, clear; undefined is Null
MapSet(map, key, value) ==
  [k \in DOMAIN map \cup {key} |-> IF k = key THEN value ELSE map[k]]
MapDelete(map, key) == [k \in DOMAIN map \ {key} |-> map[k]]
MapGet(map, key) == IF key \in DOMAIN map THEN map[key] ELSE Null
MapClear(map) == [k \in {} |-> Null]

\* a cleanup that sweeps the whole cache
TimerCallbackSweep(cache, storyId) == MapClear(cache)

\* the callback cacheStoryImmediate hands to setTimeout
TimerCallback(cache, storyId) == MapDelete(cache, storyId)

cacheStoryImmediate(cache, pending, story) ==
  [immediateStoryCache |-> MapSet(cache, story.storyId, story),
   timers |-> Append(pending, [storyId |-> story.storyId, remaining |-> TTL])]

getStoryImmediate(cache, storyId) == MapGet(cache, storyId)

clearStoryCache(cache) == MapClear(cache)

storeStory(storage, story) == MapSet(storage, story.storyId, story)

getStory(storage, storyId) == MapGet(storage, storyId)

\* deleteStory reporting the removal but leaving the entry
deleteStoryKeepsEntry(storage, storyId) ==
  [storyStorage |-> storage, result |-> storyId \in DOMAIN storage]

deleteStory(storage, storyId) ==
  [storyStorage |-> MapDelete(storage, storyId),
   result |-> storyId \in DOMAIN storage]

demoStory == [storyId |-> "demo", title |-> "The Secret of the Ancient Library"]

\* GET looking in the lookup store before the immediate cache
GETStorageFirst(storyId, cache, storage) ==
  IF storyId = ""
  THEN [status |-> 400, body |-> [error |-> "Story ID is required"]]
  ELSE IF storyId = "demo"
  THEN [status |-> 200, body |-> demoStory]
  ELSE LET stored == getStory(storage, storyId)
           story == IF stored = Null THEN getStoryImmediate(cache, storyId) ELSE stored
       IN  IF story = Null
           THEN [status |-> 404, body |-> [error |-> "Story not found"]]
           ELSE [status |-> 200, body |-> story]

\* GET /api/stories/[id]
GET(storyId, cache, storage) ==
  IF storyId = ""
  THEN [status |-> 400, body |-> [error |-> "Story ID is required"]]
  ELSE IF storyId = "demo"
  THEN [status |-> 200, body |-> demoStory]
  ELSE LET immediate == getStoryImmediate(cache, storyId)
           story == IF immediate = Null THEN getStory(storage, storyId) ELSE immediate
       IN  IF story = Null
           THEN [status |-> 404, body |-> [error |-> "Story not found"]]
           ELSE [status |-> 200, body |-> story]

\* POST /api/stories/[id]
POST(body, storage) ==
  IF body = MalformedJson
  THEN [response |-> [status |-> 500, body |-> [error |-> "Failed to store story"]],
        storyStorage |-> storage]
  ELSE IF body.storyId = ""
  THEN [response |-> [status |-> 400, body |-> [error |-> "Story ID is required"]],
        storyStorage |-> storage]
  ELSE [response |-> [status |-> 200, body |-> [success |-> TRUE, storyId |-> body.storyId]],
        storyStorage |-> storeStory(storage, body)]

\* ------------------------------------------------- generateStoryImages
\* story texts for the scene extractor: words, blanks, paragraph breaks and
\* sentence ends
Period == "."
SceneWordsInText == {"hello", "library"}
FanTokens == SceneWordsInText \cup {SEP, SP, Period}
FanContents == SeqsUpTo(FanTokens, MaxContentLen)
StoryStyles == {"mystery", "poetry"}
CharacterImageUrls == {Null, [url |-> "ref.png"]}

\* String.prototype.trim()
RECURSIVE TrimStart(_)
TrimStart(t) ==
  IF Len(t) = 0 THEN t
  ELSE IF t[1] \in Blank THEN TrimStart(Tail(t)) ELSE t

RECURSIVE TrimEnd(_)
TrimEnd(t) ==
  IF Len(t) = 0 THEN t
  ELSE IF t[Len(t)] \in Blank THEN TrimEnd(SubSeq(t, 1, Len(t) - 1)) ELSE t

Trim(t) == TrimEnd(TrimStart(t))

\* Array.prototype.join(' ')
RECURSIVE JoinWithSpace(_)
JoinWithSpace(ps) ==
  IF Len(ps) = 0 THEN <<>>
  ELSE IF Len(ps) = 1 THEN ps[1]
  ELSE ps[1] \o <<SP>> \o JoinWithSpace(Tail(ps))

\* cleanText.split(/[.!?]+/): a run of sentence ends is one separator
RECURSIVE SplitSentencesFrom(_, _, _)
SplitSentencesFrom(t, i, cur) ==
  IF i > Len(t) THEN <<cur>>
  ELSE IF t[i] = Period
  THEN IF i > 1 /\ t[i - 1] = Period
       THEN SplitSentencesFrom(t, i + 1, cur)
       ELSE <<cur>> \o SplitSentencesFrom(t, i + 1, <<>>)
  ELSE SplitSentencesFrom(t, i + 1, Append(cur, t[i]))

SplitSentences(t) == SplitSentencesFrom(t, 1, <<>>)

actionWords == {"stood", "walked", "entered", "discovered", "examined", "found",
                "approached", "looked", "realized"}
sceneWords  == {"library", "laboratory", "room", "building", "forest", "city",
                "school", "office"}

RECURSIVE FirstSentenceWith(_, _)
FirstSentenceWith(sentences, words) ==
  IF Len(sentences) = 0 THEN Null
  ELSE IF \E i \in 1..Len(sentences[1]) : sentences[1][i] \in words
  THEN [sentence |-> sentences[1]]
  ELSE FirstSentenceWith(Tail(sentences), words)

\* extractMainAction: null is Null, a string s is [text |-> s]
extractMainAction(text) ==
  LET sentences == FilterNonBlank(SplitSentences(text))
      found == FirstSentenceWith(sentences, actionWords \cup sceneWords)
  IN  IF found # Null THEN [text |-> Trim(found.sentence)]
      ELSE IF Len(sentences) > 0 THEN [text |-> Trim(sentences[1])]
      ELSE Null

\* a page number below ten as a string
DecimalDigit(n) ==
  CASE n = 0 -> "0" [] n = 1 -> "1" [] n = 2 -> "2" [] n = 3 -> "3" [] n = 4 -> "4"
    [] n = 5 -> "5" [] n = 6 -> "6" [] n = 7 -> "7" [] n = 8 -> "8" [] n = 9 -> "9"

extractScenesFromStory(content, pageCount) ==
  LET paragraphs == FilterNonBlank(Split(content))
      scenesPerPage == IF pageCount = 0 THEN 0 ELSE CeilDiv(Len(paragraphs), pageCount)
      Scene(i) ==
        LET startIdx == i * scenesPerPage
            endIdx   == Min(startIdx + scenesPerPage, Len(paragraphs))
            pageContent == JoinWithSpace(Slice(paragraphs, startIdx, endIdx))
            action == extractMainAction(pageContent)
        IN  \* extractMainAction(pageContent) || `Scene ${i + 1} from the story`
            IF action = Null \/ action.text = <<>>
            THEN << "Scene ", DecimalDigit(i + 1), " from the story" >>
            ELSE action.text
  IN  [i \in 1..pageCount |-> Scene(i - 1)]

mapStoryStyleToMood(style) ==
  CASE style = "adventure" -> "adventurous"
    [] style = "mystery" -> "mysterious"
    [] style = "romance" -> "romantic"
    [] style = "scifi" -> "futuristic"
    [] style = "fantasy" -> "fantasy"
    [] OTHER -> "adventurous"

\* the photo ids of characterImageSets
characterImageSets(mood) ==
  CASE mood = "adventurous" ->
         << "photo-1578662996442-48f60103fc96", "photo-1506905925346-21bda4d32df4",
            "photo-1551632811-561732d1e306" >>
    [] mood = "mysterious" ->
         << "photo-1507003211169-0a1dd7228f2d", "photo-1481627834876-b7833e8f5570",
            "photo-1554475901-4538ddfbccc2" >>
    [] mood = "romantic" ->
         << "photo-1518709268805-4e9042af2176", "photo-1470071459604-3b5ec3a7fe05",
            "photo-1465146344425-f00d5f5c8f07" >>
    [] mood = "futuristic" ->
         << "photo-1518709268805-4e9042af2176", "photo-1451187580459-43490279c0fa",
            "photo-1518709268805-4e9042af2176" >>
    [] mood = "fantasy" ->
         << "photo-1544947950-fa07a98d237f", "photo-1507003211169-0a1dd7228f2d",
            "photo-1481627834876-b7833e8f5570" >>

getCharacterConsistentImages(characterImageUrl, mood) ==
  LET baseImages == characterImageSets(mood)
  IN  [i \in 1..Len(baseImages) |->
         [photo |-> baseImages[i],
          characterRef |-> characterImageUrl]]

\* Math.floor(Math.random() * length)
RandomIndices(length) == 0..(length - 1)

\* generateCharacterImage of image-generation.ts; random is what
\* Math.floor(Math.random() * characterBasedImages.length) gave
generateMangaCharacterImage(request, random) ==
  LET characterBasedImages ==
        getCharacterConsistentImages(request.characterImageUrl, request.mood)
  IN  [imageUrl |-> characterBasedImages[random + 1],
       alt |-> << "Manga-style illustration: " >> \o request.sceneDescription]

\* Promise.all collecting by arrival
PromiseAllByArrival(values, index, value) ==
  LET free == CHOOSE k \in 1..Len(values) :
                /\ values[k] = Null
                /\ \A j \in 1..(k - 1) : values[j] # Null
  IN  [values EXCEPT ![free] = value]

\* Promise.all: the value of the promise at position index is put at index
PromiseAllCollect(values, index, value) == [values EXCEPT ![index] = value]

\* ------------------------------------------------------------------ state
VARIABLES
  pc,                      \* where the storybook generation is
  entry,                   \* which entry point started it
  characterProfile,        \* GoogleProductionStorybook.characterProfile
  analyzeCalls,            \* history: calls of analyzeCharacterImage on the generator
  backendCharacterProfile, \* GoogleProductionStorybook.backendCharacterProfile
  storyContent,            \* argument storyContent of the running call
  targetPages,             \* argument targetPages of the running call
  textPages,               \* const textPages of generateStoryPages
  storyPages,              \* const storyPages of generateStoryPages
  pageCalls,               \* outcome of generateCharacterConsistentImage per page
  dalleCall,               \* outcome of the last generateCharacterImageWithDALLE
  immediateStoryCache,     \* the Map of immediate-story-cache.ts
  timers,                  \* pending setTimeout callbacks, in creation order
  storyStorage,            \* the Map of story-storage
  lastPut,                 \* history: last cacheStoryImmediate per storyId, its age
  lastStoreOp,             \* history: last storeStory / deleteStory per storyId
  deleted,                 \* history: storyId deleted and not put again since
  lastOp,                  \* history: the last operation and what it returned
  fanPc,                   \* where the call of generateStoryImages is
  fanRequest,              \* its arguments
  scenes,                  \* const scenes of generateStoryImages
  imagePromises,           \* imagePromises: Null while pending, else the value
  allValues,               \* the values Promise.all has collected
  settledOutOfOrder,       \* history: a promise settled before an earlier one
  applied,                 \* the last application of a function: arguments, result
  words,                   \* useVocabularyStore: words
  recentActions,           \* useVocabularyStore: recentActions
  sinceSetWords,           \* history: the words at the last setWords, the calls since
  storeOp,                 \* history: the last call on the store and what it met
  toasts,                  \* the toasts on screen, each with its Undo action
  tts,                     \* the TTSManager, the speech synthesis and its timers
  quiet,                   \* history: stop() or pause() was the client's last call
  ttsOp,                   \* history: the last step of the TTSManager
  reader,                  \* story and pageIndex of ReaderPageContent
  readerOp                 \* history: the last step of the reader

pipelineVars == << pc, entry, characterProfile, analyzeCalls, backendCharacterProfile,
                   storyContent, targetPages, textPages, storyPages, pageCalls,
                   dalleCall >>

cacheVars == << immediateStoryCache, timers, storyStorage, lastPut, lastStoreOp,
                deleted, lastOp >>

fanVars == << fanPc, fanRequest, scenes, imagePromises, allValues, settledOutOfOrder >>

storeVars == << words, recentActions, sinceSetWords, storeOp, toasts >>

ttsVars == << tts, quiet, ttsOp >>
readerVars == << reader, readerOp >>

vars == << pipelineVars, cacheVars, fanVars, applied, storeVars, ttsVars,
           readerVars >>

\* what the actions of one part leave alone
notPipelineVars ==
  << cacheVars, fanVars, applied, storeVars, ttsVars, readerVars >>
notCacheVars ==
  << pipelineVars, fanVars, applied, storeVars, ttsVars, readerVars >>
notFanVars ==
  << pipelineVars, cacheVars, applied, storeVars, ttsVars, readerVars >>
notApplied ==
  << pipelineVars, cacheVars, fanVars, storeVars, ttsVars, readerVars >>
notStoreVars ==
  << pipelineVars, cacheVars, fanVars, applied, ttsVars, readerVars >>
notTtsVars ==
  << pipelineVars, cacheVars, fanVars, applied, storeVars, readerVars >>
notReaderVars ==
  << pipelineVars, cacheVars, fanVars, applied, storeVars, ttsVars >>

\* ------------------------------------------------------- vocabulary store
\* the demo words of the store, cut down to an unknown and a known one
Word(id, status) == [id |-> id, status |-> status]
DemoWords == << Word("word-1", "unknown"), Word("word-2", "known") >>
\* the word lists handed to setWords
WordLists == {DemoWords, << Word("word-1", "known") >>, << >>}
\* the ids handed to toggleWordStatus, one of them of no word
WordIds == {"word-1", "word-2", "word-0"}

\* recentActions.slice(0, 9): the actions kept next to the new one
KeptActions == 9

\* Array.prototype.findIndex(w => w.id === wordId), from 1; 0 is -1
FindIndex(ws, wordId) ==
  LET found == {i \in 1..Len(ws) : ws[i].id = wordId}
  IN  IF found = {} THEN 0 ELSE CHOOSE i \in found : \A j \in found : i <= j

setWords(state, ws) == [words |-> ws, recentActions |-> << >>]

\* toggleWordStatus keeping five actions
toggleWordStatusKeepsFive(state, wordId) ==
  LET wordIndex == FindIndex(state.words, wordId)
  IN  IF wordIndex = 0 THEN state
      ELSE LET word == state.words[wordIndex]
               newStatus == IF word.status = "unknown" THEN "known" ELSE "unknown"
               newAction == [type |-> "toggle", word |-> word,
                             previousStatus |-> word.status]
           IN  [words |-> [state.words EXCEPT ![wordIndex] =
                             [word EXCEPT !.status = newStatus]],
                recentActions |->
                  << newAction >> \o SubSeq(state.recentActions, 1,
                                            Min(4, Len(state.recentActions)))]

toggleWordStatus(state, wordId) ==
  LET wordIndex == FindIndex(state.words, wordId)
  IN  IF wordIndex = 0 THEN state
      ELSE LET word == state.words[wordIndex]
               newStatus == IF word.status = "unknown" THEN "known" ELSE "unknown"
               newAction == [type |-> "toggle", word |-> word,
                             previousStatus |-> word.status]
           IN  [words |-> [state.words EXCEPT ![wordIndex] =
                             [word EXCEPT !.status = newStatus]],
                recentActions |->
                  << newAction >> \o SubSeq(state.recentActions, 1,
                                            Min(KeptActions, Len(state.recentActions)))]

undoLastAction(state) ==
  IF Len(state.recentActions) = 0 THEN state
  ELSE LET lastAction == Head(state.recentActions)
           remainingActions == Tail(state.recentActions)
       IN  IF lastAction.type = "toggle"
           THEN LET wordIndex == FindIndex(state.words, lastAction.word.id)
                IN  IF wordIndex = 0
                    THEN [state EXCEPT !.recentActions = remainingActions]
                    ELSE [words |-> [state.words EXCEPT ![wordIndex].status =
                                       lastAction.previousStatus],
                          recentActions |-> remainingActions]
           ELSE [state EXCEPT !.recentActions = remainingActions]

clearRecentActions(state) == [state EXCEPT !.recentActions = << >>]

StoreInit ==
  /\ words = DemoWords
  /\ recentActions = << >>
  /\ sinceSetWords = [words |-> DemoWords, toggles |-> 0, undos |-> 0, mixed |-> FALSE]
  /\ storeOp = [op |-> "none"]
  /\ toasts = << >>

\* -------------------------------------------------------------- TTSManager
\* The manager with the speech synthesis of the browser, which is taken to be
\* there: paragraphs is the number of paragraphs of the page, speaking the
\* utterance handed to speak() and not yet over ("none", or the method that
\* made it), paused the paused state of the synthesis, timers the pending
\* setTimeout(() => this.play(), 500), and cancelledEnd an end event still to
\* be delivered to an utterance of play() that cancel() has removed.
TtsInit ==
  /\ tts = [paragraphs |-> 0, currentParagraphIndex |-> 0, speaking |-> "none",
            paused |-> FALSE, timers |-> 0, cancelledEnd |-> FALSE]
  /\ quiet = FALSE
  /\ ttsOp = [op |-> "none", started |-> FALSE, quiet |-> FALSE]

setParagraphs(t, paragraphs) ==
  [t EXCEPT !.paragraphs = paragraphs, !.currentParagraphIndex = 0]

\* speechSynthesis.cancel(): the utterance is removed; whether it is sent an
\* end event or an error event is left to the browser (endEvent)
cancel(t, endEvent) ==
  [t EXCEPT !.speaking = "none",
            !.cancelledEnd = @ \/ (t.speaking = "play" /\ endEvent)]

stop(t, endEvent) == cancel(t, endEvent)

pause(t) == [t EXCEPT !.paused = TRUE]

resume(t) == [t EXCEPT !.paused = FALSE]

play(t, endEvent) ==
  IF t.currentParagraphIndex >= t.paragraphs THEN t
  ELSE [stop(t, endEvent) EXCEPT !.speaking = "play"]

repeat(t, endEvent) ==
  IF t.currentParagraphIndex >= t.paragraphs THEN stop(t, endEvent)
  ELSE [stop(t, endEvent) EXCEPT !.speaking = "repeat"]

\* currentUtterance.onend of an utterance of play()
onend(t) ==
  LET next == t.currentParagraphIndex + 1
  IN  [t EXCEPT !.currentParagraphIndex = next,
                !.timers = IF next < t.paragraphs THEN @ + 1 ELSE @]

\* ------------------------------------------------------------------ reader
\* The state of ReaderPageContent: story is null or the loaded story, of which
\* the number of pages is kept; pageIndex is the page shown.
SAMPLE_STORY == [pages |-> 10]

ReaderInit ==
  /\ reader = [story |-> Null, pageIndex |-> 0]
  /\ readerOp = [op |-> "none", before |-> 0]

\* setStory(enhancedStory) at the end of loadStoryData
setStory(r, loadedStory) == [r EXCEPT !.story = loadedStory]

setPageIndex(r, index) == [r EXCEPT !.pageIndex = index]

handlePrev(r) ==
  IF r.pageIndex > 0 THEN setPageIndex(r, r.pageIndex - 1) ELSE r

handleNext(r) ==
  IF r.story # Null /\ r.pageIndex < r.story.pages - 1
  THEN setPageIndex(r, r.pageIndex + 1)
  ELSE r

\* case 'Home' of handleKeyDown
Home(r) == setPageIndex(r, 0)

\* case 'End' of handleKeyDown
End(r) == IF r.story # Null THEN setPageIndex(r, r.story.pages - 1) ELSE r

FanInit ==
  /\ fanPc = "idle"
  /\ fanRequest = Null
  /\ scenes = << >>
  /\ imagePromises = << >>
  /\ allValues = << >>
  /\ settledOutOfOrder = FALSE
  /\ applied = [fn |-> "none"]

\* Both Maps are empty when their modules are loaded; no timer is pending.
CacheInit ==
  /\ immediateStoryCache = << >>
  /\ timers = << >>
  /\ storyStorage = << >>
  /\ lastPut = [id \in StoryIds |-> Null]
  /\ lastStoreOp = [id \in StoryIds |-> Null]
  /\ deleted = [id \in StoryIds |-> FALSE]
  /\ lastOp = [op |-> "none", storyId |-> "", result |-> Null]

Init ==
  /\ pc = "ready"
  /\ entry = "none"
  /\ characterProfile = Null
  /\ analyzeCalls = 0
  /\ backendCharacterProfile = Null
  /\ storyContent = <<>>
  /\ targetPages = 0
  /\ textPages = <<>>
  /\ storyPages = <<>>
  /\ pageCalls = <<>>
  /\ dalleCall = Null
  /\ CacheInit
  /\ FanInit
  /\ StoreInit
  /\ TtsInit
  /\ ReaderInit

\* the calls of analyzeCharacterImage on one generator that are counted
MaxAnalyzeCalls == 2

\* analyzeCharacterImage on the generator: the health check only logs
AnalyzeCharacterImage ==
  /\ pc = "ready"
  /\ analyzeCalls < MaxAnalyzeCalls
  /\ \E imageUrl \in Locators, health \in HealthOutcomes :
        characterProfile' = analyzeCharacterImageFallback(imageUrl)
  /\ analyzeCalls' = analyzeCalls + 1
  /\ UNCHANGED << pc, entry, backendCharacterProfile, storyContent, targetPages,
                  textPages, storyPages, pageCalls, dalleCall >>
  /\ UNCHANGED notPipelineVars

\* generateStoryPages without the check of the profile
EnterGenerateStoryPagesUnchecked(content, pages) ==
  /\ pc' = "loop"
  /\ textPages' = intelligentStoryPagination(content, pages)

\* the head of generateStoryPages, up to the first iteration of its loop
EnterGenerateStoryPages(content, pages) ==
  IF characterProfile = Null
  THEN /\ pc' = "threw"
       /\ textPages' = <<>>
  ELSE /\ pc' = "loop"
       /\ textPages' = intelligentStoryPagination(content, pages)

\* generateStoryPages called on the generator
GenerateStoryPages ==
  /\ pc = "ready"
  /\ \E content \in Contents, pages \in PageCounts :
        /\ storyContent' = content
        /\ targetPages' = pages
        /\ EnterGenerateStoryPages(content, pages)
  /\ entry' = "direct"
  /\ storyPages' = <<>>
  /\ pageCalls' = <<>>
  /\ UNCHANGED << characterProfile, analyzeCalls, backendCharacterProfile, dalleCall >>
  /\ UNCHANGED notPipelineVars

\* generateGoogleProductionStorybook: a new generator, then analyzeCharacterImage
StorybookAnalyze ==
  /\ pc = "ready"
  /\ entry = "none"
  /\ \E imageUrl \in Locators, content \in Contents, pages \in PageCounts,
        health \in HealthOutcomes :
        /\ storyContent' = content
        /\ targetPages' = pages
        /\ characterProfile' = analyzeCharacterImageFallback(imageUrl)
  /\ analyzeCalls' = 1
  /\ entry' = "storybook"
  /\ backendCharacterProfile' = Null
  /\ pc' = "analyzed"
  /\ UNCHANGED << textPages, storyPages, pageCalls, dalleCall >>
  /\ UNCHANGED notPipelineVars

\* generateGoogleProductionStorybook: generator.generateStoryPages(...)
StorybookGeneratePages ==
  /\ pc = "analyzed"
  /\ storyPages' = <<>>
  /\ pageCalls' = <<>>
  /\ EnterGenerateStoryPages(storyContent, targetPages)
  /\ UNCHANGED << entry, characterProfile, analyzeCalls, backendCharacterProfile, storyContent,
                  targetPages, dalleCall >>
  /\ UNCHANGED notPipelineVars

\* a page numbered by its position in the loop
PageNumberFromZero(index) == index

\* pageNumber: index + 1
PageNumberOf(index) == index + 1

\* one iteration of the loop of generateStoryPages: the call for the page is
\* made and awaited before the next iteration begins
ProcessPage ==
  /\ pc = "loop"
  /\ Len(storyPages) < Len(textPages)
  /\ \E outcome \in BackendOutcomes :
       LET index == Len(storyPages)
           textContent == textPages[index + 1]
           \* the generation call of the iteration, for the extracted scene
           Generate(scene) ==
             generateCharacterConsistentImage(backendCharacterProfile, outcome,
               [characterProfile |-> characterProfile,
                characterAction  |-> scene.characterAction,
                sceneDescription |-> scene.sceneDescription,
                emotionalTone    |-> scene.emotionalTone,
                pageNumber       |-> PageNumberOf(index)])
           \* storyPages.push(...) unless the call raised
           Push(scene, call) ==
             /\ pageCalls' = Append(pageCalls,
                             [threw |-> call.threw, tiers |-> call.tiers,
                              obtainedBefore |-> Len(storyPages),
                              backend |-> IF backendCharacterProfile = Null
                                          THEN "notCalled" ELSE outcome])
             /\ IF call.threw
                THEN /\ pc' = "threw"
                     /\ UNCHANGED storyPages
                ELSE /\ pc' = pc
                     /\ storyPages' = Append(storyPages,
                          [pageNumber |-> PageNumberOf(index),
                           textContent |-> textContent,
                           characterAction |-> scene.characterAction,
                           sceneDescription |-> scene.sceneDescription,
                           emotionalTone |-> scene.emotionalTone,
                           generatedImageData |-> call.value])
           Iterate(scene) == Push(scene, Generate(scene))
       IN  Iterate([characterAction  |-> extractCharacterAction(textContent),
                    sceneDescription |-> extractSceneDescription(textContent),
                    emotionalTone    |-> extractEmotionalTone(textContent)])
  /\ UNCHANGED << entry, characterProfile, analyzeCalls, backendCharacterProfile, storyContent,
                  targetPages, textPages, dalleCall >>
  /\ UNCHANGED notPipelineVars

\* return storyPages
ReturnStoryPages ==
  /\ pc = "loop"
  /\ Len(storyPages) = Len(textPages)
  /\ pc' = "returned"
  /\ UNCHANGED << entry, characterProfile, analyzeCalls, backendCharacterProfile, storyContent,
                  targetPages, textPages, storyPages, pageCalls, dalleCall >>
  /\ UNCHANGED notPipelineVars

\* a call of generateCharacterImageWithDALLE (the client makes this call or
\* generates a storybook)
GenerateWithDALLE ==
  /\ pc = "ready"
  /\ \E request \in Requests, outcome \in DalleOutcomes :
        dalleCall' = generateCharacterImageWithDALLE(request, outcome)
  /\ pc' = IF dalleCall'.threw THEN "threw" ELSE "returned"
  /\ entry' = "dalle"
  /\ UNCHANGED << characterProfile, analyzeCalls, backendCharacterProfile, storyContent,
                  targetPages, textPages, storyPages, pageCalls >>
  /\ UNCHANGED notPipelineVars

Next ==
  \/ AnalyzeCharacterImage
  \/ GenerateStoryPages
  \/ StorybookAnalyze
  \/ StorybookGeneratePages
  \/ ProcessPage
  \/ ReturnStoryPages
  \/ GenerateWithDALLE

Spec == Init /\ [][Next]_vars

\* a deployment in which the generator's backend profile has been set; no code
\* of the repository assigns the field, so the real tier of
\* generateCharacterConsistentImage runs only from these states
BackendProfiles == {[characterId |-> "char_1"]}

InitConfigured ==
  /\ pc = "ready"
  /\ entry = "none"
  /\ characterProfile = Null
  /\ analyzeCalls = 0
  /\ backendCharacterProfile \in {Null} \cup BackendProfiles
  /\ storyContent = <<>>
  /\ targetPages = 0
  /\ textPages = <<>>
  /\ storyPages = <<>>
  /\ pageCalls = <<>>
  /\ dalleCall = Null
  /\ CacheInit
  /\ FanInit
  /\ StoreInit
  /\ TtsInit
  /\ ReaderInit

SpecConfigured == InitConfigured /\ [][Next]_vars

\* ------------------------------------------------------- story cache actions
\* A timer whose delay has run out fires before any other callback runs and
\* before the clock moves on (Node runs due timers first in each loop turn).
NoDueTimer == \A i \in 1..Len(timers) : timers[i].remaining > 0

Op(name, storyId, result) == [op |-> name, storyId |-> storyId, result |-> result]

RemoveAt(seq, i) == SubSeq(seq, 1, i - 1) \o SubSeq(seq, i + 1, Len(seq))

CacheStoryImmediate ==
  /\ NoDueTimer
  /\ Len(timers) < MaxTimers
  /\ \E story \in Stories :
       LET after == cacheStoryImmediate(immediateStoryCache, timers, story)
       IN  /\ immediateStoryCache' = after.immediateStoryCache
           /\ timers' = after.timers
           /\ lastPut' = [lastPut EXCEPT ![story.storyId] =
                            [story |-> story, age |-> 0, cleared |-> FALSE]]
           /\ deleted' = [deleted EXCEPT ![story.storyId] = FALSE]
           /\ lastOp' = Op("cacheStoryImmediate", story.storyId, Null)
  /\ UNCHANGED << storyStorage, lastStoreOp >>
  /\ UNCHANGED notCacheVars

GetStoryImmediate ==
  /\ NoDueTimer
  /\ \E storyId \in StoryIds :
       lastOp' = Op("getStoryImmediate", storyId,
                    [value |-> getStoryImmediate(immediateStoryCache, storyId)])
  /\ UNCHANGED << immediateStoryCache, timers, storyStorage, lastPut, lastStoreOp, deleted >>
  /\ UNCHANGED notCacheVars

ClearStoryCache ==
  /\ NoDueTimer
  /\ immediateStoryCache' = clearStoryCache(immediateStoryCache)
  /\ lastPut' = [id \in StoryIds |->
                   IF lastPut[id] = Null THEN Null
                   ELSE [lastPut[id] EXCEPT !.cleared = TRUE]]
  /\ lastOp' = Op("clearStoryCache", "", Null)
  /\ UNCHANGED << timers, storyStorage, lastStoreOp, deleted >>
  /\ UNCHANGED notCacheVars

\* the oldest due timer runs its callback
TimerFires ==
  /\ \E i \in 1..Len(timers) :
       /\ timers[i].remaining = 0
       /\ \A j \in 1..(i - 1) : timers[j].remaining > 0
       /\ immediateStoryCache' = TimerCallback(immediateStoryCache, timers[i].storyId)
       /\ timers' = RemoveAt(timers, i)
       /\ lastOp' = Op("timer", timers[i].storyId, Null)
  /\ UNCHANGED << storyStorage, lastPut, lastStoreOp, deleted >>
  /\ UNCHANGED notCacheVars

\* the clock advances by one tick
Tick ==
  /\ NoDueTimer
  /\ timers' = [i \in 1..Len(timers) |->
                  [timers[i] EXCEPT !.remaining = @ - 1]]
  /\ lastPut' = [id \in StoryIds |->
                   IF lastPut[id] = Null THEN Null
                   ELSE [lastPut[id] EXCEPT !.age = Min(@ + 1, TTL)]]
  /\ lastOp' = Op("tick", "", Null)
  /\ UNCHANGED << immediateStoryCache, storyStorage, lastStoreOp, deleted >>
  /\ UNCHANGED notCacheVars

StoreStory ==
  /\ NoDueTimer
  /\ \E story \in Stories :
       /\ storyStorage' = storeStory(storyStorage, story)
       /\ lastStoreOp' = [lastStoreOp EXCEPT ![story.storyId] =
                            [op |-> "storeStory", story |-> story]]
       /\ deleted' = [deleted EXCEPT ![story.storyId] = FALSE]
       /\ lastOp' = Op("storeStory", story.storyId, Null)
  /\ UNCHANGED << immediateStoryCache, timers, lastPut >>
  /\ UNCHANGED notCacheVars

GetStory ==
  /\ NoDueTimer
  /\ \E storyId \in StoryIds :
       lastOp' = Op("getStory", storyId, [value |-> getStory(storyStorage, storyId)])
  /\ UNCHANGED << immediateStoryCache, timers, storyStorage, lastPut, lastStoreOp, deleted >>
  /\ UNCHANGED notCacheVars

DeleteStory ==
  /\ NoDueTimer
  /\ \E storyId \in StoryIds :
       LET after == deleteStory(storyStorage, storyId)
       IN  /\ storyStorage' = after.storyStorage
           /\ lastOp' = Op("deleteStory", storyId,
                           [value |-> after.result,
                            existed |-> lastStoreOp[storyId] # Null
                                          /\ lastStoreOp[storyId].op = "storeStory"])
           /\ lastStoreOp' = [lastStoreOp EXCEPT ![storyId] = [op |-> "deleteStory"]]
           /\ deleted' = [deleted EXCEPT ![storyId] = @ \/ after.result]
  /\ UNCHANGED << immediateStoryCache, timers, lastPut >>
  /\ UNCHANGED notCacheVars

Get ==
  /\ NoDueTimer
  /\ \E storyId \in RequestIds :
       lastOp' = Op("GET", storyId, GET(storyId, immediateStoryCache, storyStorage))
  /\ UNCHANGED << immediateStoryCache, timers, storyStorage, lastPut, lastStoreOp, deleted >>
  /\ UNCHANGED notCacheVars

Post ==
  /\ NoDueTimer
  /\ \E body \in PostBodies :
       LET after == POST(body, storyStorage)
           stored == after.response.status = 200
       IN  /\ storyStorage' = after.storyStorage
           /\ lastStoreOp' = IF stored
                             THEN [lastStoreOp EXCEPT ![body.storyId] =
                                     [op |-> "storeStory", story |-> body]]
                             ELSE lastStoreOp
           /\ deleted' = IF stored THEN [deleted EXCEPT ![body.storyId] = FALSE]
                         ELSE deleted
           /\ lastOp' = Op("POST", IF stored THEN body.storyId ELSE "", after.response)
  /\ UNCHANGED << immediateStoryCache, timers, lastPut >>
  /\ UNCHANGED notCacheVars

CacheNext ==
  \/ CacheStoryImmediate
  \/ GetStoryImmediate
  \/ ClearStoryCache
  \/ TimerFires
  \/ Tick
  \/ StoreStory
  \/ GetStory
  \/ DeleteStory
  \/ Get
  \/ Post

CacheSpec == Init /\ [][CacheNext]_vars


\* ------------------------------------------------ generateStoryImages
\* generateStoryImages up to Promise.all: every generateCharacterImage call is
\* made, one promise per scene
GenerateStoryImages ==
  /\ fanPc = "idle"
  /\ \E characterImageUrl \in CharacterImageUrls, storyContent_ \in FanContents,
        storyStyle \in StoryStyles, pageCount \in PageCounts :
       LET found == extractScenesFromStory(storyContent_, pageCount)
       IN  /\ fanRequest' = [characterImageUrl |-> characterImageUrl,
                             mood |-> mapStoryStyleToMood(storyStyle)]
           /\ scenes' = found
           /\ imagePromises' = [i \in 1..Len(found) |-> Null]
           /\ allValues' = [i \in 1..Len(found) |-> Null]
  /\ fanPc' = "pending"
  /\ UNCHANGED settledOutOfOrder
  /\ UNCHANGED notFanVars

\* one of the pending promises settles, in any order
SettleImage ==
  /\ fanPc = "pending"
  /\ \E index \in 1..Len(imagePromises) :
       /\ imagePromises[index] = Null
       /\ \E random \in RandomIndices(Len(characterImageSets(fanRequest.mood))) :
            LET value == generateMangaCharacterImage(
                           [characterImageUrl |-> fanRequest.characterImageUrl,
                            sceneDescription |-> scenes[index],
                            mood |-> fanRequest.mood], random)
            IN  /\ imagePromises' = [imagePromises EXCEPT ![index] = value]
                /\ allValues' = PromiseAllCollect(allValues, index, value)
       /\ settledOutOfOrder' =
            (settledOutOfOrder \/ \E earlier \in 1..(index - 1) : imagePromises[earlier] = Null)
  /\ UNCHANGED << fanPc, fanRequest, scenes >>
  /\ UNCHANGED notFanVars

\* Promise.all resolves when no promise is pending
ResolveAll ==
  /\ fanPc = "pending"
  /\ \A index \in 1..Len(imagePromises) : imagePromises[index] # Null
  /\ fanPc' = "resolved"
  /\ UNCHANGED << fanRequest, scenes, imagePromises, allValues, settledOutOfOrder >>
  /\ UNCHANGED notFanVars

FanNext ==
  \/ GenerateStoryImages
  \/ SettleImage
  \/ ResolveAll

FanSpec == Init /\ [][FanNext]_vars

\* ------------------------------------------------- functions, applied
\* intelligentStoryPagination applied to a text and a page count
ApplyPagination ==
  /\ applied.fn = "none"
  /\ \E content \in Texts, pages \in PageCounts :
       applied' = [fn |-> "intelligentStoryPagination",
                   content |-> content, targetPages |-> pages,
                   result |-> intelligentStoryPagination(content, pages)]
  /\ UNCHANGED notApplied

\* ------------------------------------------------- character profiling
\* analyzeCharacterImage as a function of its locator and of what the health
\* check does: the profile is built before the check, whose result is logged.
checkBackendHealth(health) == Return(health = "healthy", <<>>)

analyzeCharacterImage(imageUrl, health) ==
  LET profile == analyzeCharacterImageFallback(imageUrl)
      backendHealth == checkBackendHealth(health)
  IN  Return(profile, << Tier("backendHealth", health) >>)

\* The uploaded files, and what the environment hands a profiling call: the
\* health response, the upload response (the server names the character with
\* a fresh uuid), Math.random's identifier, the object URL, the clock.
Files == {"maya.png", "hero.jpg"}
UploadResponses ==
  {[threw |-> TRUE, ok |-> FALSE, success |-> FALSE, characterId |-> << >>],
   [threw |-> FALSE, ok |-> FALSE, success |-> FALSE, characterId |-> << >>],
   [threw |-> FALSE, ok |-> TRUE, success |-> FALSE, characterId |-> << >>]}
  \cup {[threw |-> FALSE, ok |-> TRUE, success |-> TRUE, characterId |-> u] :
          u \in {<< "uuid-1" >>, << "uuid-2" >>}}
Environments ==
  [health : HealthOutcomes, upload : UploadResponses, random : {"k3x9", "q7m2"},
   objectUrl : {"blob:1", "blob:2"}, now : {"t1", "t2"}]

BackendAnalysis ==
  [hairColor |-> "dark brown", eyeColor |-> "brown", age |-> "young adult",
   gender |-> "female", artStyle |-> "manga",
   description |-> "Young adult female character with dark hair and friendly expression, manga art style"]

\* the profile the server's upload handler answers with
ServerProfile(file, response, now) ==
  [characterId       |-> response.characterId,
   originalImageUrl  |-> << "/uploads/", file >>,
   processedImageUrl |-> << "/uploads/processed/", response.characterId >>,
   analysis          |-> BackendAnalysis,
   createdAt         |-> now]

\* uploadCharacterImage: every failure is caught and answered with null
uploadCharacterImage(file, response, now) ==
  IF response.threw \/ ~response.ok \/ ~response.success
  THEN Return(Null, << Tier("upload", "failed") >>)
  ELSE Return(ServerProfile(file, response, now), << Tier("upload", "ok") >>)

createSimulationProfile(file, env) ==
  LET characterId == << "sim_", env.random >> IN
  [characterId |-> characterId,
   profile     |-> [characterId       |-> characterId,
                    originalImageUrl  |-> env.objectUrl,
                    processedImageUrl |-> env.objectUrl,
                    analysis          |-> BackendAnalysis,
                    createdAt         |-> env.now],
   imageUrl    |-> env.objectUrl]

\* processCharacterFile without the simulation profile after a failed upload
processCharacterFileNoFallback(file, env) ==
  LET backendAvailable == checkBackendHealth(env.health) IN
  IF backendAvailable.threw
  THEN Return(createSimulationProfile(file, env), << Tier("simulation", "ok") >>)
  ELSE IF ~backendAvailable.value
  THEN Return(createSimulationProfile(file, env), << Tier("simulation", "ok") >>)
  ELSE LET profile == uploadCharacterImage(file, env.upload, env.now) IN
       IF profile.threw
       THEN Return(createSimulationProfile(file, env),
                   profile.tiers \o << Tier("simulation", "ok") >>)
       ELSE IF profile.value # Null
       THEN Return([characterId |-> profile.value.characterId,
                    profile     |-> profile.value,
                    imageUrl    |-> profile.value.processedImageUrl],
                   profile.tiers)
       ELSE Return(Null, profile.tiers)

processCharacterFile(file, env) ==
  LET backendAvailable == checkBackendHealth(env.health) IN
  IF backendAvailable.threw
  THEN Return(createSimulationProfile(file, env), << Tier("simulation", "ok") >>)
  ELSE IF ~backendAvailable.value
  THEN Return(createSimulationProfile(file, env), << Tier("simulation", "ok") >>)
  ELSE LET profile == uploadCharacterImage(file, env.upload, env.now) IN
       IF profile.threw
       THEN Return(createSimulationProfile(file, env),
                   profile.tiers \o << Tier("simulation", "ok") >>)
       ELSE IF profile.value # Null
       THEN Return([characterId |-> profile.value.characterId,
                    profile     |-> profile.value,
                    imageUrl    |-> profile.value.processedImageUrl],
                   profile.tiers)
       ELSE Return(createSimulationProfile(file, env),
                   profile.tiers \o << Tier("simulation", "ok") >>)

\* analyzeCharacterImage called twice on one locator
ApplyAnalyzeCharacterImage ==
  /\ applied.fn = "none"
  /\ \E imageUrl \in Locators, health1 \in HealthOutcomes, health2 \in HealthOutcomes :
       applied' = [fn |-> "analyzeCharacterImage", imageUrl |-> imageUrl,
                   health |-> << health1, health2 >>,
                   first  |-> analyzeCharacterImage(imageUrl, health1),
                   second |-> analyzeCharacterImage(imageUrl, health2)]
  /\ UNCHANGED notApplied

\* processCharacterFile called twice on one file
ApplyProcessCharacterFile ==
  /\ applied.fn = "none"
  /\ \E file \in Files, env1 \in Environments, env2 \in Environments :
       applied' = [fn |-> "processCharacterFile", file |-> file,
                   env |-> << env1, env2 >>,
                   first  |-> processCharacterFile(file, env1),
                   second |-> processCharacterFile(file, env2)]
  /\ UNCHANGED notApplied

\* ------------------------------------------ placeholder asset selection
MaxPageIndex == 3

\* the prompts the selection is applied to: up to two words, of which
\* "Reading" matches only once lowered and "manga" matches no branch
Prompts ==
  SeqsUpTo({"Reading", "documented", "manuscript", "scientific", "discussing",
            "active", "manga"}, 2)

\* the branches of generateCharacterConsistentImageUrl in their order, each
\* with its keywords and its images (named by their photo identifiers)
imageBranches ==
  << [keywords |-> << "reading", "studying", "library" >>,
      images   |-> << "photo-1481627834876", "photo-1544947950", "photo-1507003211169" >>],
     [keywords |-> << "writing", "documented", "noting" >>,
      images   |-> << "photo-1513475382585", "photo-1434030216411", "photo-1488161628813" >>],
     [keywords |-> << "examining", "investigating", "manuscript" >>,
      images   |-> << "photo-1522202176988", "photo-1494790108755", "photo-1531746020798" >>],
     [keywords |-> << "laboratory", "research", "scientific" >>,
      images   |-> << "photo-1582719478250", "photo-1559757148", "photo-1507003211169" >>],
     [keywords |-> << "speaking", "discussing", "explaining" >>,
      images   |-> << "photo-1517841905240", "photo-1524504388940", "photo-1539571696357" >>],
     [keywords |-> << "running", "moving", "active" >>,
      images   |-> << "photo-1499996860823", "photo-1506794778202", "photo-1520813792240" >>] >>

defaultImages == << "photo-1507003211169", "photo-1494790108755", "photo-1531746020798" >>

\* the image set of the first branch one of whose keywords the lowered
\* prompt includes, the default set when there is none
branchImages(prompt) ==
  LET promptLower == ToLowerCase(Flatten(prompt))
      matches(b) == \E k \in 1..Len(imageBranches[b].keywords) :
                       IsSubstring(Chars(imageBranches[b].keywords[k]), promptLower)
      matching == {b \in 1..Len(imageBranches) : matches(b)}
  IN  IF matching = {} THEN defaultImages
      ELSE imageBranches[CHOOSE b \in matching : \A c \in matching : b <= c].images

\* generateCharacterConsistentImageUrl with an index that stops at the last
\* image instead of wrapping around
generateCharacterConsistentImageUrlClamped(prompt, profile, pageIndex) ==
  LET images == branchImages(prompt)
      selectedImageUrl == images[Min(pageIndex, Len(images) - 1) + 1]
  IN  [selectedImageUrl |-> selectedImageUrl,
       style  |-> profile.visualStyle.artStyle,
       age    |-> profile.visualStyle.ageGroup,
       gender |-> profile.visualStyle.gender,
       page   |-> pageIndex,
       prompt |-> prompt]

\* the final URL, kept as the selected image and the query parameters
generateCharacterConsistentImageUrl(prompt, profile, pageIndex) ==
  LET images == branchImages(prompt)
      selectedImageUrl == images[(pageIndex % Len(images)) + 1]
  IN  [selectedImageUrl |-> selectedImageUrl,
       style  |-> profile.visualStyle.artStyle,
       age    |-> profile.visualStyle.ageGroup,
       gender |-> profile.visualStyle.gender,
       page   |-> pageIndex,
       prompt |-> prompt]

GoogleCharacterProfile ==
  [visualStyle |-> [artStyle |-> "manga", ageGroup |-> "young adult", gender |-> "female"]]

\* generatePageIllustration: the sets by genre, the moods of a genre in the
\* order of its keys
illustrationSets ==
  [adventure |->
     << [mood |-> "cheerful",
         images |-> << "photo-1506905925346", "photo-1551632811", "photo-1469474968028",
                       "photo-1578662996442" >>],
        [mood |-> "serious",
         images |-> << "photo-1506905925346", "photo-1419833479618", "photo-1551632811" >>] >>,
   mystery |->
     << [mood |-> "mysterious",
         images |-> << "photo-1507003211169", "photo-1481627834876", "photo-1544947950" >>],
        [mood |-> "serious",
         images |-> << "photo-1481627834876", "photo-1507003211169" >>] >>,
   fantasy |->
     << [mood |-> "cheerful",
         images |-> << "photo-1544947950", "photo-1507003211169", "photo-1481627834876" >>] >>]

Genres == {"adventure", "mystery", "fantasy", "poetry"}
Moods == {"cheerful", "serious", "mysterious", "calm"}

moodSetOf(character, genre) ==
  LET genreSet == IF genre \in DOMAIN illustrationSets THEN illustrationSets[genre]
                  ELSE illustrationSets.adventure
      found == {m \in 1..Len(genreSet) : genreSet[m].mood = character.mood}
  IN  IF found # {} THEN genreSet[CHOOSE m \in found : TRUE].images
      ELSE IF Len(genreSet) > 0 THEN genreSet[1].images
      ELSE << "photo-1544947950" >>

generatePageIllustration(character, pageContext, genre, pageNumber) ==
  LET moodSet == moodSetOf(character, genre)
      imageIndex == (pageNumber - 1) % Len(moodSet)
      baseUrl == moodSet[imageIndex + 1]
  IN  [selectedImageUrl |-> baseUrl,
       mood |-> character.mood, style |-> character.style, page |-> pageNumber]

\* generateCharacterConsistentImageUrl for the pages pageIndex..pageIndex+N
\* of one prompt, N the size of the image set the prompt selects
ApplyGenerateCharacterConsistentImageUrl ==
  /\ applied.fn = "none"
  /\ \E prompt \in Prompts, pageIndex \in 0..MaxPageIndex :
       applied' = [fn |-> "generateCharacterConsistentImageUrl",
                   prompt |-> prompt, pageIndex |-> pageIndex,
                   images |-> branchImages(prompt),
                   results |-> [k \in 0..Len(branchImages(prompt)) |->
                                  generateCharacterConsistentImageUrl(
                                    prompt, GoogleCharacterProfile, pageIndex + k)]]
  /\ UNCHANGED notApplied

\* generatePageIllustration for the pages pageNumber..pageNumber+N
ApplyGeneratePageIllustration ==
  /\ applied.fn = "none"
  /\ \E mood \in Moods, genre \in Genres, pageIndex \in 0..MaxPageIndex :
       LET character == [mood |-> mood, style |-> "manga"]
           pageNumber == pageIndex + 1
       IN  applied' = [fn |-> "generatePageIllustration",
                       genre |-> genre, mood |-> mood, pageIndex |-> pageNumber,
                       images |-> moodSetOf(character, genre),
                       results |-> [k \in 0..Len(moodSetOf(character, genre)) |->
                                      generatePageIllustration(
                                        character, Null, genre, pageNumber + k)]]
  /\ UNCHANGED notApplied

\* --------------------------------------------- simulated image selection
\* action.replace(/\s+/g, '-').toLowerCase() on the characters of the action
RECURSIVE ReplaceWhitespace(_)
ReplaceWhitespace(chars) ==
  IF Len(chars) = 0 THEN << >>
  ELSE IF chars[1] # 32 THEN << chars[1] >> \o ReplaceWhitespace(Tail(chars))
  ELSE IF Len(chars) > 1 /\ chars[2] = 32 THEN ReplaceWhitespace(Tail(chars))
  ELSE << 45 >> \o ReplaceWhitespace(Tail(chars))

\* generateFallbackImage of the server; sceneHash is what
\* Math.random().toString(36).substring(2, 8) gave. The score is in hundredths.
generateFallbackImage(profile, action, sceneDescription, style, pageNumber, sceneHash) ==
  LET characterId == SubSeq(profile.characterId, 1, Min(8, Len(profile.characterId)))
      actionSlug  == ToLowerCase(ReplaceWhitespace(Chars(action)))
  IN  [url |-> [base |-> "https://imagen.googleapis.com/v3/character/",
                characterId |-> characterId, actionSlug |-> actionSlug,
                sceneHash |-> sceneHash, style |-> style, page |-> pageNumber],
       prompt |-> << style, " style illustration of ", profile.analysis.description,
                     " ", action, " in ", sceneDescription >>,
       consistencyScore |-> 85,
       generationTime |-> 1000]

\* two calls of the server's simulation with the same character, action,
\* scene, style and page
ApplyGenerateFallbackImage ==
  /\ applied.fn = "none"
  /\ \E request \in Requests, pageIndex \in 0..MaxPageIndex,
        sceneHash1 \in {"a1b2c3", "x9y8z7"}, sceneHash2 \in {"a1b2c3", "x9y8z7"} :
       LET profile == [characterId |-> << "uuid-1" >>, analysis |-> BackendAnalysis]
           image(sceneHash) ==
             generateFallbackImage(profile, request.action, request.scene, "manga",
                                   pageIndex + 1, sceneHash).url
       IN  applied' = [fn |-> "generateFallbackImage", request |-> request,
                       pageNumber |-> pageIndex + 1,
                       first |-> image(sceneHash1), second |-> image(sceneHash2)]
  /\ UNCHANGED notApplied

\* two calls of generateCharacterImage (image-generation.ts) with one request
ApplyGenerateCharacterImage ==
  /\ applied.fn = "none"
  /\ \E characterImageUrl \in CharacterImageUrls, storyStyle \in StoryStyles,
        word \in SceneWordsInText :
       LET request == [characterImageUrl |-> characterImageUrl,
                       sceneDescription |-> << word >>,
                       mood |-> mapStoryStyleToMood(storyStyle)]
           length == Len(characterImageSets(request.mood))
       IN  \E random1 \in RandomIndices(length), random2 \in RandomIndices(length) :
             applied' = [fn |-> "generateCharacterImage", request |-> request,
                         first  |-> generateMangaCharacterImage(request, random1).imageUrl,
                         second |-> generateMangaCharacterImage(request, random2).imageUrl]
  /\ UNCHANGED notApplied

\* two calls of the generator's simulated tier with the same parameters
ApplyGenerateUniqueImageUrl ==
  /\ applied.fn = "none"
  /\ \E imageUrl \in Locators, content \in Contents, pageIndex \in 0..MaxPageIndex :
       LET params == [characterProfile |-> analyzeCharacterImageFallback(imageUrl),
                      characterAction  |-> extractCharacterAction(content),
                      sceneDescription |-> extractSceneDescription(content),
                      emotionalTone    |-> extractEmotionalTone(content),
                      pageNumber       |-> pageIndex + 1]
       IN  applied' = [fn |-> "generateUniqueImageUrl", params |-> params,
                       first  |-> generateCharacterConsistentImageFallback(params).imageUrl,
                       second |-> generateCharacterConsistentImageFallback(params).imageUrl]
  /\ UNCHANGED notApplied

\* ------------------------------------------------ scene extraction, applied
MaxPageWords == 2
PageTexts == SeqsUpTo(PageWords, MaxPageWords)

\* the three extractors applied to a page text and to the same words in the
\* opposite order
ApplyExtractors ==
  /\ applied.fn = "none"
  /\ \E text \in PageTexts :
       LET reversed == [i \in 1..Len(text) |-> text[Len(text) + 1 - i]]
           extracted(t) == [action |-> extractCharacterAction(t),
                            scene  |-> extractSceneDescription(t),
                            tone   |-> extractEmotionalTone(t)]
       IN  applied' = [fn |-> "extractors", text |-> text,
                       result |-> extracted(text),
                       reversed |-> extracted(reversed)]
  /\ UNCHANGED notApplied

\* ------------------------------------------------------- narrative arc
MaxTotalPages == 10

\* createStoryContext with the breakpoints taken inclusively
createStoryContextInclusive(pageIndex, totalPages, sceneContent, previousScenes) ==
  [pageNumber |-> pageIndex + 1,
   storyArc |-> IF 10 * pageIndex <= 2 * totalPages THEN "beginning"
                ELSE IF 10 * pageIndex <= 6 * totalPages THEN "rising"
                ELSE IF 10 * pageIndex <= 7 * totalPages THEN "climax"
                ELSE IF 10 * pageIndex <= 9 * totalPages THEN "falling"
                ELSE "resolution",
   sceneContent |-> sceneContent,
   previousScene |-> IF pageIndex \in 1..Len(previousScenes)
                     THEN previousScenes[pageIndex] ELSE Null]

\* pageIndex < totalPages * 0.2 and the like, in tenths: the products in
\* double precision order every page index as the exact products do
createStoryContext(pageIndex, totalPages, sceneContent, previousScenes) ==
  [pageNumber |-> pageIndex + 1,
   storyArc |-> IF 10 * pageIndex < 2 * totalPages THEN "beginning"
                ELSE IF 10 * pageIndex < 6 * totalPages THEN "rising"
                ELSE IF 10 * pageIndex < 7 * totalPages THEN "climax"
                ELSE IF 10 * pageIndex < 9 * totalPages THEN "falling"
                ELSE "resolution",
   sceneContent |-> sceneContent,
   previousScene |-> IF pageIndex \in 1..Len(previousScenes)
                     THEN previousScenes[pageIndex] ELSE Null]

\* the story contexts of the pages of a story, as the loop over its pages
\* makes them, and the page looked at
ApplyCreateStoryContext ==
  /\ applied.fn = "none"
  /\ \E totalPages \in 1..MaxTotalPages :
       \E pageIndex \in 0..(totalPages - 1) :
         applied' = [fn |-> "createStoryContext",
                     pageIndex |-> pageIndex, totalPages |-> totalPages,
                     storyArc |-> createStoryContext(pageIndex, totalPages, << >>, << >>).storyArc,
                     arcs |-> [j \in 0..(totalPages - 1) |->
                                 createStoryContext(j, totalPages, << >>, << >>).storyArc]]
  /\ UNCHANGED notApplied

\* ------------------------------------------------- translation injection
\* A story text is kept as its words, each plain or emphasis-marked
\* (**word**), and the parenthetical notes put after them; the spaces between
\* them are left out.
MaxTextWords == 3
Plain(word) == [kind |-> "plain", text |-> word]
Bold(word)  == [kind |-> "bold", text |-> word]
Note(translation) == [kind |-> "note", text |-> translation]
MarkedTexts ==
  SeqsUpTo({Plain("resilient"), Plain("Resilient"), Bold("resilient"),
            Bold("Resilient"), Plain("zebra"), Plain("constructor")}, MaxTextWords)

\* the dictionaries of the locales, cut down to the Spanish one and to the
\* lemma looked at
translations ==
  [es |-> [resilient |-> "resistente"]]

\* `${object[key]}` for the members an object literal inherits from
\* Object.prototype, and a function from Function.prototype, under a name a
\* lower-cased word can spell
ObjectPrototype == [constructor |-> "function Object() { [native code] }"]
FunctionPrototype == [constructor |-> "function Function() { [native code] }"]

\* translations[translationLocale]: the members a lookup in the dictionary of
\* a locale finds, its own entries and the inherited ones; translations
\* itself inherits constructor, the function Object, whose own members a word
\* can spell are cut down to its name
Dictionaries ==
  [locale \in DOMAIN translations |-> translations[locale] @@ ObjectPrototype]
    @@ [constructor |-> [name |-> "Object"] @@ FunctionPrototype]

SameWord(a, b) == ToLowerCase(Chars(a)) = ToLowerCase(Chars(b))

\* one round of vocabularyWords.forEach: the replacement of the emphasis-marked
\* occurrences (flags gi), then of the occurrences between word boundaries,
\* whose callback looks for **match** in the text the first replacement gave
annotateWord(translatedText, word, targetLangDict) ==
  LET keys == {k \in DOMAIN targetLangDict : Chars(k) = ToLowerCase(Chars(word))}
      key == IF keys = {} THEN "none" ELSE CHOOSE k \in keys : TRUE
      RECURSIVE ReplaceBold(_)
      ReplaceBold(t) ==
        IF Len(t) = 0 THEN << >>
        ELSE (IF t[1].kind = "bold" /\ SameWord(t[1].text, word)
              THEN << Bold(word), Note(targetLangDict[key]) >>
              ELSE << t[1] >>) \o ReplaceBold(Tail(t))
      bolded == ReplaceBold(translatedText)
      includesBold(match) ==
        \E i \in 1..Len(bolded) : bolded[i] = Bold(match)
      RECURSIVE ReplaceWord(_)
      ReplaceWord(t) ==
        IF Len(t) = 0 THEN << >>
        ELSE (IF t[1].kind = "plain" /\ SameWord(t[1].text, word)
                 /\ ~includesBold(t[1].text)
              THEN << t[1], Note(targetLangDict[key]) >>
              ELSE << t[1] >>) \o ReplaceWord(Tail(t))
  IN  IF key = "none" THEN translatedText ELSE ReplaceWord(bolded)

RECURSIVE annotateWords(_, _, _)
annotateWords(translatedText, vocabularyWords, targetLangDict) ==
  IF Len(vocabularyWords) = 0 THEN translatedText
  ELSE annotateWords(annotateWord(translatedText, vocabularyWords[1], targetLangDict),
                     Tail(vocabularyWords), targetLangDict)

addTranslationsToText(text, vocabularyWords, translationLocale) ==
  IF translationLocale = "none" \/ translationLocale = "" THEN text
  ELSE IF translationLocale \notin DOMAIN Dictionaries THEN text
  ELSE annotateWords(text, vocabularyWords, Dictionaries[translationLocale])

ApplyAddTranslationsToText ==
  /\ applied.fn = "none"
  /\ \E text \in MarkedTexts,
        vocabularyWords \in {<< "resilient" >>, << "zebra" >>, << "zebra", "resilient" >>,
                             << "constructor" >>},
        translationLocale \in {"none", "", "es", "xx", "constructor"} :
       applied' = [fn |-> "addTranslationsToText", text |-> text,
                   vocabularyWords |-> vocabularyWords,
                   translationLocale |-> translationLocale,
                   result |-> addTranslationsToText(text, vocabularyWords, translationLocale)]
  /\ UNCHANGED notApplied

\* ------------------------------------------------------ generation times
\* Date.now() is in milliseconds; an awaited request settles up to MaxElapsed
\* half seconds after it was made
MaxElapsed == 3
Elapsed == {500 * e : e \in 0..MaxElapsed}

\* generateCharacterImageWithDALLE entered at startTime, its request settled
\* at settled: both the try and the catch block record Date.now() - startTime
generateCharacterImageWithDALLEAt(request, outcome, startTime, settled) ==
  generateCharacterImageWithDALLE(request, outcome).value
    @@ [generationTime |-> settled - startTime]

StabilityOutcomes == {"image", "notOk", "noImage", "fetchThrows"}

\* generateCharacterImageWithStabilityAI entered at startTime; its request
\* settled at settled, and on a failure the catch block hands the request to
\* generateCharacterImageWithDALLE, which is entered then
generateCharacterImageWithStabilityAI(request, outcome, dalleOutcome, startTime, settled, dalleSettled) ==
  IF outcome = "image"
  THEN [imageUrl |-> [base |-> "data:image/png;base64,"],
        prompt |-> createDetailedPromptForDALLE(request),
        characterConsistencyScore |-> 90,
        generationTime |-> settled - startTime]
  ELSE generateCharacterImageWithDALLEAt(request, dalleOutcome, settled, dalleSettled)

\* generateImageWithDALLE of the server, for a request that gave an image
generateImageWithDALLE(profile, sceneDescription, action, style, startTime, settled) ==
  [url |-> [base |-> "http://localhost:3002/generated-images/dalle3"],
   prompt |-> << style, " style illustration of ", profile.analysis.description,
                 " ", action, " in ", sceneDescription,
                 ". Consistent character design, high quality digital art, detailed composition." >>,
   consistencyScore |-> 95,
   generationTime |-> settled - startTime]

\* what the server's generator met: no OpenAI key, an image, or a failure
ServerOutcomes == {"noKey", "image", "throws"}

\* the handler of POST /api/images/generate for a known character, entered
\* at entered; generateImageWithDALLE is called in the same instant
PostImagesGenerate(profile, body, outcome, sceneHash, entered, settled) ==
  LET generatedImage ==
        IF outcome = "image"
        THEN generateImageWithDALLE(profile, body.sceneDescription, body.action,
                                    body.style, entered, settled)
        ELSE generateFallbackImage(profile, body.action, body.sceneDescription,
                                   body.style, body.pageNumber, sceneHash)
  IN  [success |-> TRUE,
       imageUrl |-> generatedImage.url,
       prompt |-> generatedImage.prompt,
       consistencyScore |-> generatedImage.consistencyScore,
       generationTime |-> generatedImage.generationTime]

ApplyGenerateCharacterImageWithStabilityAI ==
  /\ applied.fn = "none"
  /\ \E request \in Requests, outcome \in StabilityOutcomes,
        dalleOutcome \in DalleOutcomes, first \in Elapsed, second \in Elapsed :
       LET dalleEntered == outcome # "image"
       IN  applied' = [fn |-> "generateCharacterImageWithStabilityAI",
                       outcome |-> outcome,
                       dalleOutcome |-> IF dalleEntered THEN dalleOutcome ELSE "notCalled",
                       entered |-> 0,
                       returned |-> IF dalleEntered THEN first + second ELSE first,
                       result |-> generateCharacterImageWithStabilityAI(request, outcome,
                                    dalleOutcome, 0, first, first + second)]
  /\ UNCHANGED notApplied

ApplyPostImagesGenerate ==
  /\ applied.fn = "none"
  /\ \E request \in Requests, pageIndex \in 0..MaxPageIndex,
        outcome \in ServerOutcomes, elapsed \in Elapsed :
       LET profile == [characterId |-> << "uuid-1" >>, analysis |-> BackendAnalysis]
           body == [action |-> request.action, sceneDescription |-> request.scene,
                    style |-> "manga", pageNumber |-> pageIndex + 1]
       IN  applied' = [fn |-> "postImagesGenerate", outcome |-> outcome,
                       entered |-> 0,
                       returned |-> IF outcome = "noKey" THEN 0 ELSE elapsed,
                       result |-> PostImagesGenerate(profile, body, outcome, "a1b2c3",
                                                     0, elapsed)]
  /\ UNCHANGED notApplied

PureNext ==
  \/ ApplyGenerateCharacterImageWithStabilityAI
  \/ ApplyPostImagesGenerate
  \/ ApplyPagination
  \/ ApplyAnalyzeCharacterImage
  \/ ApplyProcessCharacterFile
  \/ ApplyGenerateCharacterConsistentImageUrl
  \/ ApplyGeneratePageIllustration
  \/ ApplyGenerateFallbackImage
  \/ ApplyGenerateCharacterImage
  \/ ApplyGenerateUniqueImageUrl
  \/ ApplyExtractors
  \/ ApplyCreateStoryContext
  \/ ApplyAddTranslationsToText

PureSpec == Init /\ [][PureNext]_vars

\* ------------------------------------------------ vocabulary store actions
\* the toggles and undos since the last setWords that are counted
MaxToggles == 11

Store == [words |-> words, recentActions |-> recentActions]

\* the calls made in another order than toggles first and undos after them,
\* or after clearRecentActions, are not counted
Uncounted == [words |-> << >>, toggles |-> 0, undos |-> 0, mixed |-> TRUE]

SetWords ==
  /\ \E ws \in WordLists :
       /\ words' = setWords(Store, ws).words
       /\ recentActions' = setWords(Store, ws).recentActions
       /\ sinceSetWords' = [words |-> ws, toggles |-> 0, undos |-> 0, mixed |-> FALSE]
  /\ storeOp' = [op |-> "setWords"]
  /\ UNCHANGED toasts
  /\ UNCHANGED notStoreVars

ToggleWordStatus ==
  /\ sinceSetWords.mixed \/ sinceSetWords.toggles < MaxToggles
  /\ \E wordId \in WordIds :
       LET found == FindIndex(words, wordId) # 0
           Step(after) ==
             /\ words' = after.words
             /\ recentActions' = after.recentActions
       IN  /\ Step(toggleWordStatus(Store, wordId))
           /\ storeOp' = [op |-> "toggleWordStatus", found |-> found]
           /\ sinceSetWords' =
                IF ~found THEN sinceSetWords
                ELSE IF sinceSetWords.mixed \/ sinceSetWords.undos > 0 THEN Uncounted
                ELSE [sinceSetWords EXCEPT !.toggles = @ + 1]
  /\ UNCHANGED toasts
  /\ UNCHANGED notStoreVars

UndoLastAction ==
  /\ sinceSetWords.mixed \/ sinceSetWords.undos < MaxToggles
  /\ LET Step(after) ==
           /\ words' = after.words
           /\ recentActions' = after.recentActions
     IN  Step(undoLastAction(Store))
  /\ storeOp' = [op |-> "undoLastAction", found |-> recentActions # << >>]
  /\ sinceSetWords' = IF sinceSetWords.mixed THEN Uncounted
                      ELSE [sinceSetWords EXCEPT !.undos = @ + 1]
  /\ UNCHANGED toasts
  /\ UNCHANGED notStoreVars

ClearRecentActions ==
  /\ recentActions' = clearRecentActions(Store).recentActions
  /\ storeOp' = [op |-> "clearRecentActions"]
  /\ sinceSetWords' = Uncounted
  /\ UNCHANGED << words, toasts >>
  /\ UNCHANGED notStoreVars

StoreNext ==
  \/ SetWords
  \/ ToggleWordStatus
  \/ UndoLastAction
  \/ ClearRecentActions

StoreSpec == Init /\ [][StoreNext]_vars

\* ------------------------------------------------- vocabulary grid actions
\* the toasts on screen at once, and the undoable actions up to which the
\* user goes on clicking words
MaxToasts == 2
MaxPending == 3

\* Array.prototype.find(w => w.id === wordId); undefined is Null
Find(ws, wordId) ==
  IF FindIndex(ws, wordId) = 0 THEN Null ELSE ws[FindIndex(ws, wordId)]

\* a toast of handleWordClick: its Undo action mentions no word or action;
\* wordId, oldStatus and latest (no call changed the store since the toast
\* was shown) are history
Toast(wordId, oldStatus) == [wordId |-> wordId, oldStatus |-> oldStatus, latest |-> TRUE]

Outdated(shown) == [i \in 1..Len(shown) |-> [shown[i] EXCEPT !.latest = FALSE]]

\* onClick of the Undo action of a toast: undoLastAction(), then a toast
\* without action, which is left out
ToastOnClick(state) == undoLastAction(state)

\* handleWordClick of VocabularyGrid, words being the store's words of the
\* last render
HandleWordClick ==
  /\ Len(toasts) < MaxToasts
  /\ Len(recentActions) < MaxPending
  /\ \E wordId \in WordIds :
       LET Click(word) ==
             IF word = Null
             THEN /\ UNCHANGED << words, recentActions, toasts >>
                  /\ storeOp' = [op |-> "handleWordClick", found |-> FALSE]
             ELSE /\ words' = toggleWordStatus(Store, wordId).words
                  /\ recentActions' = toggleWordStatus(Store, wordId).recentActions
                  /\ toasts' = Append(Outdated(toasts), Toast(wordId, word.status))
                  /\ storeOp' = [op |-> "handleWordClick", found |-> TRUE]
       IN  Click(Find(words, wordId))
  /\ sinceSetWords' = Uncounted
  /\ UNCHANGED notStoreVars

\* the user activates Undo on one of the toasts on screen
ToastUndo ==
  /\ \E i \in 1..Len(toasts) :
       LET Step(after) ==
             /\ words' = after.words
             /\ recentActions' = after.recentActions
       IN  /\ Step(ToastOnClick(Store))
           /\ storeOp' = [op |-> "toastUndo", wordId |-> toasts[i].wordId,
                          oldStatus |-> toasts[i].oldStatus,
                          latest |-> toasts[i].latest, before |-> words]
  /\ toasts' = Outdated(toasts)
  /\ sinceSetWords' = Uncounted
  /\ UNCHANGED notStoreVars

\* the button shown while recentActions is not empty: onClick={undoLastAction}
UndoButton ==
  /\ recentActions # << >>
  /\ words' = undoLastAction(Store).words
  /\ recentActions' = undoLastAction(Store).recentActions
  /\ storeOp' = [op |-> "undoLastAction", found |-> TRUE]
  /\ toasts' = Outdated(toasts)
  /\ sinceSetWords' = Uncounted
  /\ UNCHANGED notStoreVars

\* a toast leaves the screen, its 4000 ms over
ToastExpires ==
  /\ \E i \in 1..Len(toasts) : toasts' = RemoveAt(toasts, i)
  /\ storeOp' = [op |-> "toastExpires"]
  /\ UNCHANGED << words, recentActions, sinceSetWords >>
  /\ UNCHANGED notStoreVars

GridNext ==
  \/ HandleWordClick
  \/ ToastUndo
  \/ UndoButton
  \/ ToastExpires

GridSpec == Init /\ [][GridNext]_vars

\* ------------------------------------------------------ TTSManager actions
\* the paragraphs of a page, and the continuations pending at once
MaxParagraphs == 2
MaxContinuations == 2

\* a step of the manager: what it did and whether it handed a new utterance
\* to speak()
TtsStep(op, after) ==
  /\ tts' = after
  /\ ttsOp' = [op |-> op, quiet |-> quiet,
               started |-> op \in {"play", "repeat", "continuation"}
                             /\ after.speaking # "none"]

\* the page turns (handlePrev, handleNext): stop(), then the effect of the
\* new pageIndex hands the paragraphs of the page to setParagraphs
PageTurn ==
  /\ \E paragraphs \in 0..MaxParagraphs, endEvent \in BOOLEAN :
       TtsStep("stop", setParagraphs(stop(tts, endEvent), paragraphs))
  /\ quiet' = TRUE
  /\ UNCHANGED notTtsVars

TtsPlay ==
  /\ \E endEvent \in BOOLEAN : TtsStep("play", play(tts, endEvent))
  /\ quiet' = FALSE
  /\ UNCHANGED notTtsVars

TtsPause ==
  /\ TtsStep("pause", pause(tts))
  /\ quiet' = TRUE
  /\ UNCHANGED notTtsVars

TtsResume ==
  /\ TtsStep("resume", resume(tts))
  /\ quiet' = FALSE
  /\ UNCHANGED notTtsVars

TtsStop ==
  /\ \E endEvent \in BOOLEAN : TtsStep("stop", stop(tts, endEvent))
  /\ quiet' = TRUE
  /\ UNCHANGED notTtsVars

TtsRepeat ==
  /\ \E endEvent \in BOOLEAN : TtsStep("repeat", repeat(tts, endEvent))
  /\ quiet' = FALSE
  /\ UNCHANGED notTtsVars

\* the utterance has been spoken to its end
UtteranceEnds ==
  /\ tts.speaking # "none"
  /\ ~tts.paused
  /\ tts.timers < MaxContinuations
  /\ TtsStep("onend", IF tts.speaking = "play"
                      THEN onend([tts EXCEPT !.speaking = "none"])
                      ELSE [tts EXCEPT !.speaking = "none"])
  /\ UNCHANGED quiet
  /\ UNCHANGED notTtsVars

\* the synthesis gives up the utterance
UtteranceError ==
  /\ tts.speaking # "none"
  /\ TtsStep("onerror", [tts EXCEPT !.speaking = "none"])
  /\ UNCHANGED quiet
  /\ UNCHANGED notTtsVars

\* the end event of a cancelled utterance is delivered
CancelledUtteranceEnds ==
  /\ tts.cancelledEnd
  /\ tts.timers < MaxContinuations
  /\ TtsStep("onend", onend([tts EXCEPT !.cancelledEnd = FALSE]))
  /\ UNCHANGED quiet
  /\ UNCHANGED notTtsVars

\* a timer set by onend fires: () => this.play()
ContinuationFires ==
  /\ tts.timers > 0
  /\ \E endEvent \in BOOLEAN :
       TtsStep("continuation", play([tts EXCEPT !.timers = @ - 1], endEvent))
  /\ UNCHANGED quiet
  /\ UNCHANGED notTtsVars

TtsNext ==
  \/ PageTurn
  \/ TtsPlay
  \/ TtsPause
  \/ TtsResume
  \/ TtsStop
  \/ TtsRepeat
  \/ UtteranceEnds
  \/ UtteranceError
  \/ CancelledUtteranceEnds
  \/ ContinuationFires

TtsSpec == Init /\ [][TtsNext]_vars

\* ---------------------------------------------------------- reader actions
\* the pages of a story read from sessionStorage or from /api/stories
MaxStoryPages == 3
LoadedStories == {[pages |-> n] : n \in 0..MaxStoryPages} \cup {SAMPLE_STORY}

ReaderStep(op, after) ==
  /\ reader' = after
  /\ readerOp' = [op |-> op, before |-> reader.pageIndex]
  /\ UNCHANGED notReaderVars

\* the load effect runs (params.id or styleImageUrl has changed) and loadStory
\* answers with the cached story, the story of the API or SAMPLE_STORY
LoadStoryData ==
  \E loadedStory \in LoadedStories :
    ReaderStep("load", setStory(reader, loadedStory))

ArrowLeft == ReaderStep("ArrowLeft", handlePrev(reader))

ArrowRight == ReaderStep("ArrowRight", handleNext(reader))

HomeKey == ReaderStep("Home", Home(reader))

EndKey == ReaderStep("End", End(reader))

ReaderNext ==
  \/ LoadStoryData
  \/ ArrowLeft
  \/ ArrowRight
  \/ HomeKey
  \/ EndKey

ReaderSpec == Init /\ [][ReaderNext]_vars

\* ------------------------------------------------------------------ claims
Last(seq) == seq[Len(seq)]

\* the consistency score the three tiers attach, in hundredths
TierScore(tier) ==
  CASE tier = "real" -> 95
    [] tier = "simulated" -> 85
    [] tier = "fallback" -> 70

FailedBackendOutcomes == {"noProfile", "fetchThrows", "notOk", "unsuccessful"}

\* C1: image generation for a page never propagates an exception: every call
\* of generateCharacterConsistentImage made so far returned an image result
\* (the page holding it was appended), whether the backend was not configured,
\* gave no result or threw, and so did the call of
\* generateCharacterImageWithDALLE.
C1_NoExceptionPropagates ==
  /\ \A i \in 1..Len(pageCalls) : ~pageCalls[i].threw
  /\ Len(storyPages) = Len(pageCalls)
  /\ \A i \in 1..Len(storyPages) : storyPages[i].generatedImageData # Null
  /\ dalleCall # Null => ~dalleCall.threw /\ dalleCall.value # Null

\* two pages generated, one with a backend request that threw and one with a
\* backend answer that reported no success
C1_Witness ==
  /\ Len(storyPages) = 2
  /\ \E i, j \in 1..Len(pageCalls) :
       /\ pageCalls[i].backend = "fetchThrows"
       /\ pageCalls[j].backend = "unsuccessful"

\* the order in which one call went through the tiers
TierOrder(call) ==
  LET tiers == call.tiers
  IN  /\ Len(tiers) \in 1..3
      /\ tiers[1].tier = "real"
      /\ (tiers[1].outcome = "unavailable") <=> (call.backend = "notCalled")
      /\ Len(tiers) >= 2 =>
           /\ tiers[2].tier = "simulated"
           /\ tiers[1].outcome \in {"unavailable", "failed"}
      /\ Len(tiers) = 3 =>
           /\ tiers[3].tier = "fallback"
           /\ tiers[2].outcome = "failed"
      /\ Last(tiers).outcome = "ok"

\* C2: for every page the tiers are tried in strict order: the real tier first
\* (unavailable only when no backend profile is set), the simulated tier only
\* after the real tier was unavailable or failed, the static fallback only
\* after the simulated tier failed, and the call ends at the first tier that
\* succeeds.
C2_TiersInStrictOrder ==
  \A i \in 1..Len(pageCalls) : TierOrder(pageCalls[i])

\* a page whose call went through all three tiers after the backend failed
C2_Witness ==
  \E i \in 1..Len(pageCalls) :
    /\ Len(pageCalls[i].tiers) = 3
    /\ pageCalls[i].tiers[1].outcome = "failed"

\* C3: every image result carries the consistency score of the tier that
\* produced it: real 0.95, simulated 0.85, static fallback 0.7.
C3_ScoreOfProducingTier ==
  /\ \A i \in 1..Len(storyPages) :
       storyPages[i].generatedImageData.characterConsistencyScore
         = TierScore(Last(pageCalls[i].tiers).tier)
  /\ (dalleCall # Null /\ ~dalleCall.threw) =>
       dalleCall.value.characterConsistencyScore = TierScore(Last(dalleCall.tiers).tier)

\* what generateStoryPages has returned: one page per text segment, in order,
\* each with a non-empty locator and a score in [0,1]; it raises only before
\* the first page, when no profile was analyzed
C4_PagesOfEverySegment ==
  /\ (pc = "returned" /\ entry \in {"direct", "storybook"}) =>
       /\ Len(storyPages) = Len(textPages)
       /\ \A i \in 1..Len(storyPages) :
            /\ storyPages[i].textContent = textPages[i]
            /\ storyPages[i].generatedImageData # Null
            /\ storyPages[i].generatedImageData.imageUrl.base # ""
            /\ storyPages[i].generatedImageData.characterConsistencyScore \in 0..100
  /\ (pc = "threw" /\ entry \in {"direct", "storybook"}) =>
       /\ characterProfile = Null
       /\ pageCalls = << >>

\* the page loop can always take its next step, and every step of it either
\* returns the pages or adds the next page
C4_LoopCanProceed ==
  pc = "loop" =>
    /\ Len(storyPages) <= Len(textPages)
    /\ ENABLED (ProcessPage \/ ReturnStoryPages)

C4_LoopProgress ==
  pc = "loop" =>
    \/ pc' = "returned" /\ storyPages' = storyPages
    \/ pc' = "loop" /\ Len(storyPages') = Len(storyPages) + 1 /\ textPages' = textPages

\* C4: story assembly always completes: whatever the backend does for each
\* page, generateStoryPages, once in its page loop, never raises and never
\* stops short (each step adds the next page until all segments have one, then
\* it returns), and what it returns holds one page for every text segment,
\* each with an image result that has a non-empty locator and a consistency
\* score in [0,1].
C4_StoryAssemblyCompletes ==
  /\ [] (C4_PagesOfEverySegment /\ C4_LoopCanProceed)
  /\ [][C4_LoopProgress]_vars

\* a returned story of two pages, one generated by the backend and one after
\* the backend failed
C4_Witness ==
  /\ pc = "returned"
  /\ Len(storyPages) = 2
  /\ \E i, j \in 1..Len(pageCalls) :
       /\ pageCalls[i].backend = "dalle"
       /\ pageCalls[j].backend \in FailedBackendOutcomes

\* C5: when the story text is empty or the requested page count is zero,
\* story assembly raises to its caller before any profiling, pagination or
\* page generation.
C5_MalformedInputRejected ==
  (/\ entry \in {"direct", "storybook"}
   /\ pc # "ready"
   /\ storyContent = << >> \/ targetPages = 0) =>
    /\ pc = "threw"
    /\ entry = "storybook" => characterProfile = Null
    /\ textPages = << >>
    /\ pageCalls = << >>

\* C6: after cacheStoryImmediate(s), getStoryImmediate(s.storyId) returns s
\* for as long as the TTL has not elapsed since that put, and absent once it
\* has (no clearStoryCache in between).
C6_RetrievableUntilTTL ==
  (lastOp.op = "getStoryImmediate" /\ lastPut[lastOp.storyId] # Null) =>
    LET put == lastPut[lastOp.storyId]
    IN  ~put.cleared =>
          IF put.age < TTL
          THEN lastOp.result.value = put.story
          ELSE lastOp.result.value = Null

\* C7: GET for a non-empty id other than 'demo' answers with the entry of the
\* immediate cache when there is one, else with the entry of the lookup store
\* when there is one, else with 404, never with 500.
C7_ReadPath ==
  (lastOp.op = "GET" /\ lastOp.storyId \notin {"", "demo"}) =>
    LET storyId == lastOp.storyId
    IN  IF storyId \in DOMAIN immediateStoryCache
        THEN lastOp.result = [status |-> 200, body |-> immediateStoryCache[storyId]]
        ELSE IF storyId \in DOMAIN storyStorage
        THEN lastOp.result = [status |-> 200, body |-> storyStorage[storyId]]
        ELSE lastOp.result.status = 404

\* a GET of a story that both stores hold, in different versions
C7_Witness ==
  /\ lastOp.op = "GET"
  /\ lastOp.storyId \in DOMAIN immediateStoryCache \cap DOMAIN storyStorage
  /\ immediateStoryCache[lastOp.storyId] # storyStorage[lastOp.storyId]
  /\ lastOp.result.status = 200

TimersOf(pending, storyId) == SelectSeq(pending, LAMBDA t : t.storyId = storyId)

\* C8: when the timer of one storyId fires it removes that storyId's entry
\* only: the entries and the pending timers (with their remaining delays) of
\* every other storyId stay as they were.
C8_EvictionPerEntry ==
  [][(lastOp'.op = "timer" /\ Len(timers') < Len(timers)) =>
       /\ lastOp'.storyId \notin DOMAIN immediateStoryCache'
       /\ \A other \in StoryIds \ {lastOp'.storyId} :
            /\ MapGet(immediateStoryCache', other) = MapGet(immediateStoryCache, other)
            /\ TimersOf(timers', other) = TimersOf(timers, other)]_vars

\* a timer has fired while another storyId is cached with its timer pending
C8_Witness ==
  /\ lastOp.op = "timer"
  /\ \E other \in DOMAIN immediateStoryCache :
       /\ other # lastOp.storyId
       /\ TimersOf(timers, other) # << >>

\* C9: the lookup store is an upsert-by-key map: getStory(id) is the story of
\* the most recent storeStory for id not followed by deleteStory(id), absent
\* otherwise, and deleteStory(id) returns true exactly when id had an entry.
C9_LookupStoreIsMap ==
  /\ \A storyId \in StoryIds :
       getStory(storyStorage, storyId)
         = IF lastStoreOp[storyId] # Null /\ lastStoreOp[storyId].op = "storeStory"
           THEN lastStoreOp[storyId].story
           ELSE Null
  /\ lastOp.op = "deleteStory" => lastOp.result.value = lastOp.result.existed

\* deleteStory has just removed an entry while the store holds a story in its
\* second version
C9_Witness ==
  /\ lastOp.op = "deleteStory"
  /\ lastOp.result.value
  /\ \E storyId \in DOMAIN storyStorage : storyStorage[storyId].title = "b"

\* C10: once deleteStory(id) has removed a story, GET for id answers 404 until
\* a story with that id is put again.
C10_DeletedIsNotFound ==
  (lastOp.op = "GET" /\ lastOp.storyId \in StoryIds /\ deleted[lastOp.storyId]) =>
    lastOp.result.status = 404

\* C11: pages are processed one after another and numbered in text order:
\* the i-th page (from 0) of generateStoryPages has pageNumber i+1 and holds
\* the i-th text segment, and the image call of a page starts only when the
\* image results of all earlier pages have been obtained.
C11_PagesInTextOrder ==
  /\ Len(storyPages) <= Len(textPages)
  /\ \A i \in 1..Len(storyPages) :
       /\ storyPages[i].pageNumber = i
       /\ storyPages[i].textContent = textPages[i]
  /\ \A k \in 1..Len(pageCalls) : pageCalls[k].obtainedBefore = k - 1

\* a returned story of two pages with different texts
C11_Witness ==
  /\ pc = "returned"
  /\ Len(storyPages) = 2
  /\ storyPages[1].textContent # storyPages[2].textContent

\* C12: generateStoryImages returns its results by page position, not by
\* completion order: result i is the image generated for scene i, whatever
\* the order in which the per-page generations finished.
C12_ResultsByPosition ==
  fanPc = "resolved" =>
    /\ Len(allValues) = Len(scenes)
    /\ \A i \in 1..Len(scenes) :
         /\ allValues[i] # Null
         /\ allValues[i] = imagePromises[i]
         /\ allValues[i].alt = << "Manga-style illustration: " >> \o scenes[i]

\* the call resolved after a later page finished before an earlier one, for
\* two different scenes
C12_Witness ==
  /\ fanPc = "resolved"
  /\ settledOutOfOrder
  /\ \E i, j \in 1..Len(scenes) : scenes[i] # scenes[j]

\* C13: for every story text and requested page count n >= 1, pagination
\* yields at most n pages, none of them blank, and exactly n pages when the
\* text has exactly n non-empty paragraphs.
C13_PaginationPageCount ==
  (applied.fn = "intelligentStoryPagination" /\ applied.targetPages >= 1) =>
    /\ Len(applied.result) <= applied.targetPages
    /\ \A i \in 1..Len(applied.result) : NonBlank(applied.result[i])
    /\ Len(FilterNonBlank(Split(applied.content))) = applied.targetPages =>
         Len(applied.result) = applied.targetPages

\* three pages from a text of three paragraphs
C13_Witness ==
  /\ applied.fn = "intelligentStoryPagination"
  /\ applied.targetPages = 3
  /\ Len(FilterNonBlank(Split(applied.content))) = 3
  /\ Len(applied.result) = 3

\* C14: two profiling calls on the same input yield the same characterId and
\* the same visual embedding, whatever the backend answers in either call.
C14_ProfilingDeterministic ==
  /\ applied.fn = "analyzeCharacterImage" =>
       /\ applied.first.value.characterId = applied.second.value.characterId
       /\ applied.first.value.visualEmbedding = applied.second.value.visualEmbedding
  /\ applied.fn = "processCharacterFile" =>
       applied.first.value.characterId = applied.second.value.characterId

\* C14, the generator's route alone: the profile is a function of the locator
C14_GeneratorRouteDeterministic ==
  applied.fn = "analyzeCharacterImage" =>
    /\ applied.first.value = applied.second.value
    /\ applied.first.value.characterId = generateCharacterId(applied.imageUrl)

\* two simulation profiles of one file, named differently
C14_SimulationIdsDiffer ==
  /\ applied.fn = "processCharacterFile"
  /\ applied.env[1].health = "unhealthy"
  /\ applied.env[2].health = "unhealthy"
  /\ applied.first.value.characterId # applied.second.value.characterId

\* what a complete profile of either kind carries
CompleteGeneratorProfile(profile) ==
  /\ profile # Null
  /\ Len(profile.characterId) >= 2
  /\ DOMAIN profile.visualEmbedding = 1..EmbeddingDim
  /\ Len(profile.colorPalette) > 0
  /\ profile.artStyle = "manga"

CompleteBackendProfile(result) ==
  /\ result # Null
  /\ result.characterId # << >>
  /\ result.profile.characterId = result.characterId
  /\ result.imageUrl = result.profile.processedImageUrl
  /\ result.profile.analysis = BackendAnalysis

\* C15: profiling never raises to its caller: whether the backend is
\* unreachable, unhealthy, rejects the upload or throws, analyzeCharacterImage
\* and processCharacterFile return a complete profile.
C15_ProfilingNeverRaises ==
  /\ applied.fn = "analyzeCharacterImage" =>
       \A call \in {applied.first, applied.second} :
         ~call.threw /\ CompleteGeneratorProfile(call.value)
  /\ applied.fn = "processCharacterFile" =>
       \A call \in {applied.first, applied.second} :
         ~call.threw /\ CompleteBackendProfile(call.value)

\* a healthy backend that rejects the upload in one call and whose upload
\* throws in the other: both calls answer with a simulation profile
C15_Witness ==
  /\ applied.fn = "processCharacterFile"
  /\ applied.env[1].health = "healthy"
  /\ ~applied.env[1].upload.threw /\ ~applied.env[1].upload.ok
  /\ applied.env[2].health = "healthy"
  /\ applied.env[2].upload.threw
  /\ applied.first.value.characterId = << "sim_", applied.env[1].random >>
  /\ applied.second.value.characterId = << "sim_", applied.env[2].random >>

SimulatedCycled ==
  applied.fn \in {"generateCharacterConsistentImageUrl", "generatePageIllustration"}

\* C16: the simulated tier cycles: with the N images of the matched category,
\* the image of page p+N is the image of page p, and the N pages p..p+N-1 take
\* N different images of the set.
C16_SimulatedTierCycles ==
  SimulatedCycled =>
    LET N == Len(applied.images) IN
    /\ N >= 1
    /\ applied.results[N].selectedImageUrl = applied.results[0].selectedImageUrl
    /\ \A k \in 0..(N - 1) :
         \E i \in 1..N : applied.results[k].selectedImageUrl = applied.images[i]
    /\ Cardinality({applied.results[k].selectedImageUrl : k \in 0..(N - 1)}) = N

\* a cycle that wraps around: it starts past the first image of a set of three
C16_Witness ==
  /\ applied.fn = "generateCharacterConsistentImageUrl"
  /\ applied.images = imageBranches[1].images
  /\ applied.pageIndex = 2
  /\ applied.results[0].selectedImageUrl = "photo-1507003211169"
  /\ applied.results[1].selectedImageUrl = "photo-1481627834876"
  /\ applied.results[3].selectedImageUrl = "photo-1507003211169"

SimulatedTwice ==
  applied.fn \in {"generateFallbackImage", "generateCharacterImage", "generateUniqueImageUrl"}

\* C17: two simulated generations with the same prompt (action and scene),
\* the same character and the same page number return the same image locator.
C17_SimulatedSelectionDeterministic ==
  SimulatedTwice => applied.first = applied.second

\* C17, the generator's own simulated tier: its locator is a function of the
\* character, the prompt and the page
C17_GeneratorTierDeterministic ==
  applied.fn = "generateUniqueImageUrl" => applied.first = applied.second

\* the server's simulation answers one request with two locators
C17_ServerLocatorsDiffer ==
  /\ applied.fn = "generateFallbackImage"
  /\ applied.first.characterId = applied.second.characterId
  /\ applied.first.actionSlug = applied.second.actionSlug
  /\ applied.first.page = applied.second.page
  /\ applied.first # applied.second

\* the characters of a text whose words are separated by single spaces
RECURSIVE SpacedChars(_)
SpacedChars(text) ==
  IF Len(text) = 0 THEN << >>
  ELSE IF Len(text) = 1 THEN Chars(text[1])
  ELSE Chars(text[1]) \o << 32 >> \o SpacedChars(Tail(text))

\* the rules one of whose keywords occurs in the text, in any case
MatchingRules(patterns, text) ==
  {i \in 1..Len(patterns) :
     \E k \in patterns[i].keywords :
        IsSubstring(Chars(k), ToLowerCase(SpacedChars(text)))}

EarliestLabel(patterns, text, default) ==
  LET matching == MatchingRules(patterns, text) IN
  IF matching = {} THEN default
  ELSE patterns[CHOOSE i \in matching : \A j \in matching : i <= j].label

\* C18: for action, setting and tone independently, the extractor returns the
\* label of the earliest-listed rule a keyword of which occurs in the page
\* text, wherever in the text it occurs, and the fixed non-empty default label
\* when no rule matches.
C18_EarliestRuleWins ==
  applied.fn = "extractors" =>
    /\ applied.result.action =
         EarliestLabel(actionPatterns, applied.text, "standing thoughtfully")
    /\ applied.result.scene =
         EarliestLabel(scenePatterns, applied.text, "thoughtfully composed indoor setting")
    /\ applied.result.tone =
         EarliestLabel(tonePatterns, applied.text, "thoughtful and engaging")
    /\ applied.reversed = applied.result
    /\ applied.result.action # "" /\ applied.result.scene # "" /\ applied.result.tone # ""

\* "searching" (rule 7, inside "researching") comes first in the text and
\* "wrote" (rule 2, capitalised) second: rule 2 gives the action; no tone rule
\* matches
C18_Witness ==
  /\ applied.fn = "extractors"
  /\ applied.text = << "researching", "Wrote" >>
  /\ MatchingRules(actionPatterns, applied.text) = {2, 7}
  /\ applied.result.action = "writing and documenting"
  /\ applied.result.scene = "modern research laboratory with advanced equipment"
  /\ applied.result.tone = "thoughtful and engaging"

ArcRank(arc) ==
  CASE arc = "beginning" -> 1 [] arc = "rising" -> 2 [] arc = "climax" -> 3
    [] arc = "falling" -> 4 [] arc = "resolution" -> 5

\* C19: the arc position of page i of t is given by i/t against the
\* breakpoints [0,0.2) beginning, [0.2,0.6) rising, [0.6,0.7) climax,
\* [0.7,0.9) falling, [0.9,1.0] resolution (compared in tenths); of 10 pages
\* page 0 is beginning, page 5 rising, page 6 climax, page 9 resolution; and
\* the position never moves backwards as i grows.
C19_NarrativeArcBreakpoints ==
  applied.fn = "createStoryContext" =>
    LET i == applied.pageIndex
        t == applied.totalPages
        arc == applied.storyArc
    IN  /\ (arc = "beginning")  <=> (0 <= 10 * i /\ 10 * i < 2 * t)
        /\ (arc = "rising")     <=> (2 * t <= 10 * i /\ 10 * i < 6 * t)
        /\ (arc = "climax")     <=> (6 * t <= 10 * i /\ 10 * i < 7 * t)
        /\ (arc = "falling")    <=> (7 * t <= 10 * i /\ 10 * i < 9 * t)
        /\ (arc = "resolution") <=> (9 * t <= 10 * i /\ 10 * i <= 10 * t)
        /\ t = 10 => /\ applied.arcs[0] = "beginning"
                     /\ applied.arcs[5] = "rising"
                     /\ applied.arcs[6] = "climax"
                     /\ applied.arcs[9] = "resolution"
        /\ \A j \in 0..(t - 2) :
             ArcRank(applied.arcs[j]) <= ArcRank(applied.arcs[j + 1])

\* page 6 of 10, on the breakpoint 0.6
C19_Witness ==
  /\ applied.fn = "createStoryContext"
  /\ applied.totalPages = 10
  /\ applied.pageIndex = 6
  /\ applied.storyArc = "climax"
  /\ applied.arcs[9] = "resolution"

\* the positions of a text at which the lemma occurs, in any case, marked or not
Occurrences(text, lemma) ==
  {i \in 1..Len(text) : text[i].kind # "note" /\ SameWord(text[i].text, lemma)}

Notes(text) == {i \in 1..Len(text) : text[i].kind = "note"}

\* the lemma has a translation in the locale and its first occurrence in the
\* text is emphasis-marked
Annotatable ==
  /\ applied.fn = "addTranslationsToText"
  /\ applied.translationLocale \in DOMAIN translations
  /\ \E w \in 1..Len(applied.vocabularyWords) : applied.vocabularyWords[w] = "resilient"
  /\ \E i \in Occurrences(applied.text, "resilient") :
       /\ applied.text[i].kind = "bold"
       /\ \A j \in Occurrences(applied.text, "resilient") : i <= j

\* C20: a lemma with a translation in the locale, emphasis-marked in the
\* text, is annotated once: its first occurrence is followed at once by the
\* parenthetical translation and no later occurrence is annotated.
C20_AnnotatedOnce ==
  Annotatable =>
    LET result == applied.result
        first == CHOOSE i \in Occurrences(result, "resilient") :
                   \A j \in Occurrences(result, "resilient") : i <= j
    IN  /\ Notes(result) = {first + 1}
        /\ result[first + 1] = Note(translations[applied.translationLocale].resilient)

\* C20, the case the code handles so: one emphasis-marked occurrence, the
\* first, and the later ones unmarked and written as the vocabulary word
C20_MarkedFirstAnnotatedOnce ==
  (/\ Annotatable
   /\ \A i \in Occurrences(applied.text, "resilient") :
        applied.text[i].kind = "bold" =>
          \A j \in Occurrences(applied.text, "resilient") : i <= j
   /\ \A i \in 1..Len(applied.text) :
        applied.text[i].kind = "plain" => applied.text[i].text # "Resilient")
  => \E first \in Occurrences(applied.result, "resilient") :
       /\ \A j \in Occurrences(applied.result, "resilient") : first <= j
       /\ Notes(applied.result) = {first + 1}
       /\ applied.result[first + 1] = Note(translations[applied.translationLocale].resilient)

\* two emphasis-marked occurrences, both annotated
C20_AnnotatedTwice ==
  /\ applied.fn = "addTranslationsToText"
  /\ applied.translationLocale = "es"
  /\ applied.text = << Bold("resilient"), Bold("resilient") >>
  /\ applied.result = << Bold("resilient"), Note("resistente"),
                         Bold("resilient"), Note("resistente") >>

\* an occurrence of the lemma in the text is followed by a parenthetical note
Annotated(text, lemma) ==
  \E i \in Occurrences(text, lemma) : i + 1 \in Notes(text)

InVocabulary(lemma) ==
  \E w \in 1..Len(applied.vocabularyWords) : applied.vocabularyWords[w] = lemma

\* the frame of addTranslationsToText over locales and lemmas: without a
\* dictionary for the locale the text comes back as it was, no occurrence of
\* a lemma without an entry in the dictionary gains a note, and a lemma of
\* the vocabulary with an entry, occurring in the text, gains one
TranslationFrame(locales, lemmas) ==
  applied.fn = "addTranslationsToText" /\ applied.translationLocale \in locales =>
    /\ applied.translationLocale \notin DOMAIN translations \ {"none", ""}
         => applied.result = applied.text
    /\ applied.translationLocale \in DOMAIN translations =>
         \A lemma \in lemmas :
           IF lemma \in DOMAIN translations[applied.translationLocale]
           THEN InVocabulary(lemma) /\ Occurrences(applied.text, lemma) # {}
                  => Annotated(applied.result, lemma)
           ELSE ~Annotated(applied.result, lemma)

\* C21: addTranslationsToText returns the text unchanged when the locale is
\* 'none', empty or has no dictionary, and alters no occurrence of a lemma
\* without an entry in the dictionary of the locale, while the lemmas with
\* an entry are annotated.
C21_AbsentLemmasUntouched ==
  TranslationFrame({"none", "", "es", "xx", "constructor"},
                   {"resilient", "zebra", "constructor"})

\* C21, for the locales and lemmas that spell no inherited member
C21_OwnNamesFrame ==
  TranslationFrame({"none", "", "es", "xx"}, {"resilient", "zebra"})

\* a lemma without an entry annotated with the inherited member of its name
C21_InheritedMemberAnnotated ==
  /\ applied.fn = "addTranslationsToText"
  /\ applied.translationLocale = "es"
  /\ applied.vocabularyWords = << "constructor" >>
  /\ applied.text = << Plain("constructor") >>
  /\ applied.result = << Plain("constructor"), Note(ObjectPrototype.constructor) >>

\* a lemma without an entry left as it was next to an annotated one
C21_AbsentLeftNextToAnnotated ==
  /\ applied.fn = "addTranslationsToText"
  /\ applied.translationLocale = "es"
  /\ applied.vocabularyWords = << "zebra", "resilient" >>
  /\ applied.text = << Plain("zebra"), Bold("resilient") >>
  /\ applied.result = << Plain("zebra"), Bold("resilient"), Note("resistente") >>

TimedCall ==
  applied.fn \in {"generateCharacterImageWithStabilityAI", "postImagesGenerate"}

\* C22: every image result, whichever tier produced it, records as its
\* generation time the time elapsed since the outermost generation call was
\* entered, also when earlier tiers failed before it.
C22_GenerationTimeFromEntry ==
  TimedCall => applied.result.generationTime = applied.returned - applied.entered

\* C22, for the results of the tier tried first
C22_FirstTierTimeFromEntry ==
  TimedCall /\ applied.outcome = "image"
    => applied.result.generationTime = applied.returned - applied.entered

\* a result of generateCharacterImageWithDALLE, reached a second after the
\* Stability request failed and half a second after its own entry, records
\* the half second
C22_ClockRestarted ==
  /\ applied.fn = "generateCharacterImageWithStabilityAI"
  /\ applied.outcome = "notOk"
  /\ applied.dalleOutcome = "url"
  /\ applied.returned - applied.entered = 1500
  /\ applied.result.generationTime = 500

\* the server's simulation, reached after a failed request, records a second
C22_SimulationRecordsConstant ==
  /\ applied.fn = "postImagesGenerate"
  /\ applied.outcome = "throws"
  /\ applied.returned - applied.entered = 1500
  /\ applied.result.generationTime = 1000

\* C23: a story cached with cacheStoryImmediate stays retrievable for the
\* full TTL counted from the most recent put of its storyId (no
\* clearStoryCache in between), also when an earlier put of the same storyId
\* was made less than one TTL before.
C23_RetrievableFromLastPut ==
  \A storyId \in StoryIds :
    (/\ lastPut[storyId] # Null
     /\ ~lastPut[storyId].cleared
     /\ lastPut[storyId].age < TTL)
    => getStoryImmediate(immediateStoryCache, storyId) = lastPut[storyId].story

\* the timer of an earlier put has fired less than one TTL after the latest
\* put of the storyId, whose own timer is still pending, and the entry is gone
C23_EvictedByEarlierTimer ==
  /\ lastOp.op = "timer"
  /\ lastPut[lastOp.storyId] # Null
  /\ ~lastPut[lastOp.storyId].cleared
  /\ lastPut[lastOp.storyId].age < TTL
  /\ TimersOf(timers, lastOp.storyId) # << >>
  /\ getStoryImmediate(immediateStoryCache, lastOp.storyId) = Null

\* the paragraphs of the pages, page after page
RECURSIVE ParagraphsOf(_)
ParagraphsOf(pages) ==
  IF Len(pages) = 0 THEN << >>
  ELSE Split(pages[1]) \o ParagraphsOf(Tail(pages))

\* C24: pagination neither loses nor duplicates text: for every requested
\* page count n >= 1 the pages, taken in order, hold every non-empty
\* paragraph of the story exactly once and in the original order.
C24_PaginationPreservesText ==
  (applied.fn = "intelligentStoryPagination" /\ applied.targetPages >= 1) =>
    ParagraphsOf(applied.result) = FilterNonBlank(Split(applied.content))

\* three paragraphs on two pages, the first page holding two of them
C24_Witness ==
  /\ applied.fn = "intelligentStoryPagination"
  /\ applied.targetPages = 2
  /\ Len(FilterNonBlank(Split(applied.content))) = 3
  /\ Len(applied.result) = 2
  /\ Len(Split(applied.result[1])) = 2

\* generateStoryPages raised 'Character profile must be analyzed first'
ProfileErrorRaised == pc = "threw" /\ textPages = << >> /\ pageCalls = << >>

\* C25: generateStoryPages raises 'Character profile must be analyzed first'
\* exactly when analyzeCharacterImage was never called on the generator;
\* through generateGoogleProductionStorybook the character is profiled once,
\* before the first page is processed, and the error does not occur.
C25_ProfileBeforePages ==
  /\ [](entry = "direct" => (ProfileErrorRaised <=> analyzeCalls = 0))
  /\ [](entry = "storybook" =>
          analyzeCalls = 1 /\ characterProfile # Null /\ ~ProfileErrorRaised)
  /\ [][pageCalls' # pageCalls =>
          analyzeCalls >= 1 /\ UNCHANGED << analyzeCalls, characterProfile >>]_vars

\* generateStoryPages called on a generator that was never asked to analyze,
\* and raising
C25_WitnessNeverAnalyzed ==
  /\ entry = "direct"
  /\ analyzeCalls = 0
  /\ ProfileErrorRaised

\* a storybook generation that has processed two pages
C25_Witness ==
  /\ entry = "storybook"
  /\ analyzeCalls = 1
  /\ Len(storyPages) = 2
  /\ pc = "returned"

\* C26: translation injection is idempotent: addTranslationsToText applied,
\* with the same words and locale, to its own output returns that output.
C26_InjectionIdempotent ==
  applied.fn = "addTranslationsToText" =>
    addTranslationsToText(applied.result, applied.vocabularyWords,
                          applied.translationLocale) = applied.result

\* C26, for the texts in which no word of the vocabulary has a translation
C26_IdempotentWhenNothingAnnotated ==
  (applied.fn = "addTranslationsToText" /\ Notes(applied.result) = {}) =>
    addTranslationsToText(applied.result, applied.vocabularyWords,
                          applied.translationLocale) = applied.result

\* an annotated marked lemma gains a second note from the second application
C26_AnnotatedAgain ==
  /\ applied.fn = "addTranslationsToText"
  /\ applied.translationLocale = "es"
  /\ applied.vocabularyWords = << "resilient" >>
  /\ applied.result = << Bold("resilient"), Note("resistente") >>
  /\ addTranslationsToText(applied.result, applied.vocabularyWords, "es")
       = << Bold("resilient"), Note("resistente"), Note("resistente") >>

\* C27: after k <= 10 toggleWordStatus calls on existing words made since
\* the last setWords, k calls of undoLastAction restore the status of every
\* word to its value before those toggles; toggling an unknown word id or
\* undoing with an empty history leaves the store unchanged.
C27_UndoReversesToggles ==
  /\ []((/\ ~sinceSetWords.mixed
         /\ sinceSetWords.toggles <= 10
         /\ sinceSetWords.undos = sinceSetWords.toggles)
        => words = sinceSetWords.words)
  /\ [][(storeOp'.op \in {"toggleWordStatus", "undoLastAction"} /\ ~storeOp'.found)
          => UNCHANGED << words, recentActions >>]_vars

\* ten toggles, of both words, and ten undos
C27_Witness ==
  /\ ~sinceSetWords.mixed
  /\ sinceSetWords.toggles = 10
  /\ sinceSetWords.undos = 10
  /\ Len(sinceSetWords.words) = 2
  /\ words = sinceSetWords.words
  /\ recentActions = << >>

\* eleven toggles of one word and eleven undos leave it toggled
C27_EleventhToggleStays ==
  /\ ~sinceSetWords.mixed
  /\ sinceSetWords.toggles = 11
  /\ sinceSetWords.undos = 11
  /\ words # sinceSetWords.words

StatusOf(ws, wordId) == Find(ws, wordId).status

\* the Undo action of a toast was activated: the word of the toast has the
\* status it had before its toggle and no other word has changed
ToastUndone ==
  /\ StatusOf(words, storeOp.wordId) = storeOp.oldStatus
  /\ \A i \in 1..Len(words) :
       words[i].id # storeOp.wordId => words[i] = storeOp.before[i]

\* C28: activating the Undo action of the toast shown for toggling word W
\* restores the status W had before that toggle and changes no other word,
\* also when other words were toggled after W and before the activation.
C28_ToastUndoRestoresItsWord ==
  storeOp.op = "toastUndo" => ToastUndone

\* C28, for a toast after which no call has changed the store
C28_LatestToastUndoRestores ==
  (storeOp.op = "toastUndo" /\ storeOp.latest) => ToastUndone

\* Undo activated on the toast of word-1 after word-2 was toggled: word-2 is
\* toggled back and word-1 stays as toggled
C28_OtherWordUndone ==
  /\ storeOp.op = "toastUndo"
  /\ storeOp.wordId = "word-1"
  /\ StatusOf(words, "word-1") # storeOp.oldStatus
  /\ StatusOf(words, "word-2") # StatusOf(storeOp.before, "word-2")

\* C29: after stop() or pause() has been called, no new utterance is started
\* until the client calls play(), resume() or repeat() again; the
\* continuation scheduled 500 ms after a paragraph ended does not restart
\* playback.
C29_QuietAfterStop ==
  ttsOp.started => ttsOp.op \in {"play", "repeat"} \/ ~ttsOp.quiet

\* the continuation has started the second paragraph after the client's stop()
C29_RestartedAfterStop ==
  /\ ttsOp.op = "continuation"
  /\ ttsOp.started
  /\ quiet
  /\ ~tts.paused
  /\ tts.currentParagraphIndex = 1
  /\ tts.speaking = "play"

\* a valid index into the pages of the story r holds
ValidIndex(r, index) == index >= 0 /\ index < r.story.pages

\* C30: after any sequence of Prev, Next, Home and End actions and story
\* loads, pageIndex is never negative, and it is a valid index into the pages
\* of the loaded story whenever that story has at least one page.
C30_PageIndexValid ==
  /\ reader.pageIndex >= 0
  /\ (reader.story # Null /\ reader.story.pages >= 1)
       => ValidIndex(reader, reader.pageIndex)

\* C30, for Prev and Next alone: from a valid index of the loaded story they
\* lead to a valid index
C30_PrevNextKeepValid ==
  (/\ readerOp.op \in {"ArrowLeft", "ArrowRight"}
   /\ reader.story # Null
   /\ ValidIndex(reader, readerOp.before))
    => ValidIndex(reader, reader.pageIndex)

\* End on a loaded story without pages has made pageIndex -1
C30_NegativeAfterEnd ==
  /\ readerOp.op = "End"
  /\ reader.story # Null
  /\ reader.story.pages = 0
  /\ reader.pageIndex = -1

\* a shorter story has been loaded under a pageIndex beyond its last page
C30_BeyondReloadedStory ==
  /\ readerOp.op = "load"
  /\ reader.story # Null
  /\ reader.story.pages >= 1
  /\ reader.pageIndex >= reader.story.pages

=============================================================================
